---------------------------- MODULE Spec2Model ----------------------------
(***************************************************************************)
(* A model of jmikkola/parsego: the backtracking rune sources, the         *)
(* snapshot scanners built on them and the parser combinators that drive   *)
(* the scanners.  Runes are integers (code points), strings are sequences  *)
(* of runes, Go's 0-based slices are read through index + 1.               *)
(***************************************************************************)
EXTENDS Integers, Sequences, FiniteSets, TLC

(* ------------------------------ bounds -------------------------------- *)

\* longest input text explored
MaxLen == 2
\* deepest snapshot stack the scanner harness builds
MaxDepth == 2
\* longest input text handed to the parsers
MaxParseLen == 3
\* parses that share one parser object
MaxParses == 2

(* ------------------------------ runes --------------------------------- *)

\* '\n', the one rune TextPos.Advance treats specially
NewLine == 10
RuneA == 97
RuneB == 98

Alphabet == {NewLine, RuneA, RuneB}

Inputs == UNION {[1..n -> Alphabet] : n \in 0..MaxLen}

\* the runes of the parsed texts: '\n', '.', '1' and 'a'
ParseAlphabet == {NewLine, 46, 49, RuneA}

\* longer texts for the decimal grammar: a digit, then MaxParseLen runes
\* out of '.', '1' and 'a' ("1.1a", "11.1", "1.11", ...)
DecimalTexts == {<<49>> \o t : t \in [1..MaxParseLen -> {46, 49, RuneA}]}

ParseInputs ==
    UNION {[1..n -> ParseAlphabet] : n \in 0..MaxParseLen} \cup DecimalTexts

\* error values: nil, scanner.EOFError and io.EOF
NoErr == "nil"
EOFError == "Reached end of input"
IoEOF == "EOF"

NoPanic == ""
RewindPanic == "Bug: rewinding to a snapshot that was never started"
PopPanic == "Bug: popped a snapshot that was never started"
IndexPanic == "runtime error: index out of range"
\* not a panic: the mark of a call that loops for ever
Hangs == "never returns"

(* ----------------------------- textpos -------------------------------- *)

Pos(line, col) == [line |-> line, col |-> col]

StartingPos == Pos(0, 0)

AdvanceCol(t) == [col |-> t.col + 1, line |-> t.line]

AdvanceLine(t) == [col |-> 0, line |-> t.line + 1]

\* Advance that keeps the column at a newline
AdvanceKeepsCol(t, c) ==
    IF c = NewLine THEN [col |-> t.col, line |-> t.line + 1] ELSE AdvanceCol(t)

Advance(t, c) == IF c = NewLine THEN AdvanceLine(t) ELSE AdvanceCol(t)

(* ---------------------- RuneBacktrackingScanner ----------------------- *)

RBSFromString(s) ==
    [kind |-> "RBS", runes |-> s, pos |-> 0, recordOffset |-> 0,
     recording |-> FALSE]

\* Read that moves pos even at the end of the runes
RBS_ReadPastEnd(s) ==
    IF s.pos >= Len(s.runes)
    THEN [src |-> [s EXCEPT !.pos = s.pos + 1], r |-> 0, err |-> EOFError]
    ELSE [src |-> [s EXCEPT !.pos = s.pos + 1],
          r |-> s.runes[s.pos + 1], err |-> NoErr]

RBS_Read(s) ==
    IF s.pos >= Len(s.runes)
    THEN [src |-> s, r |-> 0, err |-> EOFError]
    ELSE [src |-> [s EXCEPT !.pos = s.pos + 1],
          r |-> s.runes[s.pos + 1], err |-> NoErr]

\* StartBuffer that restarts the window even while recording
RBS_StartBufferAlways(s) ==
    [s EXCEPT !.recordOffset = s.pos, !.recording = TRUE]

RBS_StartBuffer(s) ==
    IF ~s.recording
    THEN [s EXCEPT !.recordOffset = s.pos, !.recording = TRUE]
    ELSE s

RBS_ReadBuffer(s, bufIdx) == s.runes[s.recordOffset + bufIdx + 1]

\* the bounds check of the index expression in ReadBuffer
RBS_IndexInRange(s, bufIdx) ==
    0 <= s.recordOffset + bufIdx /\ s.recordOffset + bufIdx < Len(s.runes)

RBS_DropBuffer(s) == [s EXCEPT !.recordOffset = 0, !.recording = FALSE]

\* BufSize that does not look at the recording flag
RBS_BufSizeAlways(s) == s.pos - s.recordOffset

RBS_BufSize(s) == IF s.recording THEN s.pos - s.recordOffset ELSE 0

(* --------------------- ScannerBacktrackingScanner --------------------- *)

\* the wrapped io.RuneReader: a forward-only cursor over the text
RuneReader(text) == [text |-> text, off |-> 0]

ReadRune(w) ==
    IF w.off >= Len(w.text)
    THEN [w |-> w, r |-> 0, err |-> IoEOF]
    ELSE [w |-> [w EXCEPT !.off = w.off + 1],
          r |-> w.text[w.off + 1], err |-> NoErr]

SBSFromReader(reader) ==
    [kind |-> "SBS", wrapped |-> reader, buffer |-> <<>>,
     bufferOffset |-> 0, recording |-> FALSE]

\* Read that forgets to record the rune
SBS_ReadMissingAppend(s) ==
    LET got == ReadRune(s.wrapped)
    IN  IF got.err # NoErr
        THEN [src |-> s, r |-> 0, err |-> got.err]
        ELSE [src |-> [s EXCEPT !.wrapped = got.w], r |-> got.r, err |-> NoErr]

SBS_Read(s) ==
    LET got == ReadRune(s.wrapped)
    IN  IF got.err # NoErr
        THEN [src |-> s, r |-> 0, err |-> got.err]
        ELSE [src |-> [s EXCEPT !.wrapped = got.w,
                                !.buffer = IF s.recording
                                           THEN Append(s.buffer, got.r)
                                           ELSE s.buffer],
              r |-> got.r, err |-> NoErr]

SBS_StartBuffer(s) == [s EXCEPT !.recording = TRUE]

SBS_ReadBuffer(s, bufIdx) == s.buffer[bufIdx + 1]

\* the bounds check of the index expression in ReadBuffer
SBS_IndexInRange(s, bufIdx) == 0 <= bufIdx /\ bufIdx < Len(s.buffer)

SBS_DropBuffer(s) == [s EXCEPT !.buffer = <<>>, !.recording = FALSE]

SBS_BufSize(s) == Len(s.buffer)

(* ------------- BacktrackingScanner: the interface dispatch ------------ *)

SrcRead(s) == IF s.kind = "RBS" THEN RBS_Read(s) ELSE SBS_Read(s)

SrcStartBuffer(s) ==
    IF s.kind = "RBS" THEN RBS_StartBuffer(s) ELSE SBS_StartBuffer(s)

SrcReadBuffer(s, i) ==
    IF s.kind = "RBS" THEN RBS_ReadBuffer(s, i) ELSE SBS_ReadBuffer(s, i)

SrcIndexInRange(s, i) ==
    IF s.kind = "RBS" THEN RBS_IndexInRange(s, i) ELSE SBS_IndexInRange(s, i)

SrcDropBuffer(s) ==
    IF s.kind = "RBS" THEN RBS_DropBuffer(s) ELSE SBS_DropBuffer(s)

SrcBufSize(s) == IF s.kind = "RBS" THEN RBS_BufSize(s) ELSE SBS_BufSize(s)

(* -------------------------- RewindableScanner ------------------------- *)
\* lastSnap is the linked list of Snapshot frames, newest first; <<>> is nil.
\* panic records how the run that owns this scanner was cut short: the
\* message of a panic raised by a call on the scanner, or Hangs for a loop
\* that never returns; NoPanic while it runs.  impl is the dynamic type
\* behind the Scanner interface.

NewRewindableScanner(source) ==
    [impl |-> "RewindableScanner", source |-> source,
     currentPos |-> StartingPos, lastSnap |-> <<>>,
     isReplaying |-> FALSE, replayPos |-> 0, panic |-> NoPanic]

FromString(str) == NewRewindableScanner(RBSFromString(str))

FromReader(reader) == NewRewindableScanner(SBSFromReader(reader))

\* the rest of Read once the replay is over: a Read from the source
ReadLive(s) ==
    LET got == SrcRead(s.source)
    IN  IF got.err # NoErr
        THEN [sc |-> [s EXCEPT !.isReplaying = FALSE, !.source = got.src],
              r |-> got.r, err |-> got.err]
        ELSE [sc |-> [s EXCEPT !.isReplaying = FALSE,
                               !.source = got.src,
                               !.currentPos = Advance(s.currentPos, got.r)],
              r |-> got.r, err |-> NoErr]

\* the replaying branch of Read: ReadBuffer(replayPos), which panics when
\* the index is outside the slice
ReadReplay(s) ==
    IF ~SrcIndexInRange(s.source, s.replayPos)
    THEN [sc |-> [s EXCEPT !.panic = IndexPanic], r |-> 0, err |-> IndexPanic]
    ELSE LET r == SrcReadBuffer(s.source, s.replayPos)
         IN  [sc |-> [s EXCEPT !.replayPos = s.replayPos + 1,
                               !.currentPos = Advance(s.currentPos, r)],
              r |-> r, err |-> NoErr]

\* Read that replays up to and including the offset BufSize
ReadReplaysToEnd(s) ==
    IF s.isReplaying /\ s.replayPos <= SrcBufSize(s.source)
    THEN ReadReplay(s)
    ELSE ReadLive(s)

Read(s) ==
    IF s.isReplaying /\ s.replayPos < SrcBufSize(s.source)
    THEN ReadReplay(s)
    ELSE ReadLive(s)

GetPos(s) == s.currentPos

StartSnapshot(s) ==
    LET src == IF s.lastSnap = <<>> THEN SrcStartBuffer(s.source) ELSE s.source
        offset == IF s.isReplaying THEN s.replayPos ELSE SrcBufSize(src)
    IN  [s EXCEPT !.source = src,
                  !.lastSnap = <<[buffOffset |-> offset,
                                  position |-> s.currentPos]>> \o s.lastSnap]

\* RewindSnapshot with a DropBuffer once the stack is empty, as PopSnapshot has
RewindSnapshotDropping(s) ==
    IF s.lastSnap = <<>>
    THEN [s EXCEPT !.panic = RewindPanic]
    ELSE [s EXCEPT !.currentPos = Head(s.lastSnap).position,
                   !.replayPos = Head(s.lastSnap).buffOffset,
                   !.lastSnap = Tail(s.lastSnap),
                   !.isReplaying = TRUE,
                   !.source = IF Tail(s.lastSnap) = <<>>
                              THEN SrcDropBuffer(s.source)
                              ELSE s.source]

\* RewindSnapshot that leaves the position where it is
RewindSnapshotKeepsPos(s) ==
    IF s.lastSnap = <<>>
    THEN [s EXCEPT !.panic = RewindPanic]
    ELSE [s EXCEPT !.replayPos = Head(s.lastSnap).buffOffset,
                   !.lastSnap = Tail(s.lastSnap),
                   !.isReplaying = TRUE]

RewindSnapshot(s) ==
    IF s.lastSnap = <<>>
    THEN [s EXCEPT !.panic = RewindPanic]
    ELSE [s EXCEPT !.currentPos = Head(s.lastSnap).position,
                   !.replayPos = Head(s.lastSnap).buffOffset,
                   !.lastSnap = Tail(s.lastSnap),
                   !.isReplaying = TRUE]

\* PopSnapshot that never tells the source to drop its buffer
PopSnapshotKeeping(s) ==
    IF s.lastSnap = <<>>
    THEN [s EXCEPT !.panic = PopPanic]
    ELSE [s EXCEPT !.lastSnap = Tail(s.lastSnap)]

\* PopSnapshot that drops the buffer before it looks at the stack
PopSnapshotDropFirst(s) ==
    IF s.lastSnap = <<>> \/ Tail(s.lastSnap) = <<>>
    THEN IF s.lastSnap = <<>>
         THEN [s EXCEPT !.source = SrcDropBuffer(s.source), !.panic = PopPanic]
         ELSE [s EXCEPT !.source = SrcDropBuffer(s.source),
                        !.lastSnap = Tail(s.lastSnap)]
    ELSE [s EXCEPT !.lastSnap = Tail(s.lastSnap)]

PopSnapshot(s) ==
    IF s.lastSnap = <<>>
    THEN [s EXCEPT !.panic = PopPanic]
    ELSE [s EXCEPT !.lastSnap = Tail(s.lastSnap),
                   !.source = IF Tail(s.lastSnap) = <<>>
                              THEN SrcDropBuffer(s.source)
                              ELSE s.source]

(* ---------------------------- StringScanner --------------------------- *)

StringFromString(str) ==
    [impl |-> "StringScanner", rs |-> str, idx |-> 0,
     currentPos |-> StartingPos, lastSnap |-> <<>>, panic |-> NoPanic]

StringGetPos(s) == s.currentPos

StringRead(s) ==
    IF s.idx >= Len(s.rs)
    THEN [sc |-> s, r |-> 0, err |-> EOFError]
    ELSE LET r == s.rs[s.idx + 1]
         IN  [sc |-> [s EXCEPT !.idx = s.idx + 1,
                               !.currentPos = Advance(s.currentPos, r)],
              r |-> r, err |-> NoErr]

StringStartSnapshot(s) ==
    [s EXCEPT !.lastSnap = <<[idx |-> s.idx, currentPos |-> s.currentPos]>>
                           \o s.lastSnap]

StringRewindSnapshot(s) ==
    IF s.lastSnap = <<>>
    THEN [s EXCEPT !.panic = RewindPanic]
    ELSE [s EXCEPT !.currentPos = Head(s.lastSnap).currentPos,
                   !.idx = Head(s.lastSnap).idx,
                   !.lastSnap = Tail(s.lastSnap)]

StringPopSnapshot(s) ==
    IF s.lastSnap = <<>>
    THEN [s EXCEPT !.panic = PopPanic]
    ELSE [s EXCEPT !.lastSnap = Tail(s.lastSnap)]


(* ------------------- Scanner: the interface dispatch ------------------ *)
\* A run that has panicked (or hangs) executes nothing further: calls on
\* its scanner change nothing and Read fails.

Sc_Read(s) ==
    IF s.panic # NoPanic THEN [sc |-> s, r |-> 0, err |-> s.panic]
    ELSE IF s.impl = "StringScanner" THEN StringRead(s) ELSE Read(s)

Sc_GetPos(s) ==
    IF s.impl = "StringScanner" THEN StringGetPos(s) ELSE GetPos(s)

Sc_StartSnapshot(s) ==
    IF s.panic # NoPanic THEN s
    ELSE IF s.impl = "StringScanner" THEN StringStartSnapshot(s)
    ELSE StartSnapshot(s)

Sc_RewindSnapshot(s) ==
    IF s.panic # NoPanic THEN s
    ELSE IF s.impl = "StringScanner" THEN StringRewindSnapshot(s)
    ELSE RewindSnapshot(s)

Sc_PopSnapshot(s) ==
    IF s.panic # NoPanic THEN s
    ELSE IF s.impl = "StringScanner" THEN StringPopSnapshot(s)
    ELSE PopSnapshot(s)

(* ------------------------ results and values -------------------------- *)
\* A value (Go's interface{}) is tagged with its dynamic type.

Nil == [t |-> "nil", v |-> <<>>]

Str(s) == [t |-> "string", v |-> s]

List(l) == [t |-> "list", v |-> l]

Range(start, end) == [start |-> start, end |-> end]

Single(pos) == [start |-> pos, end |-> pos]

Success(textRange, value) ==
    [matched |-> TRUE, textRange |-> textRange, result |-> value,
     err |-> [fmt |-> NoErr, args |-> <<>>]]

Failed(textRange, err) ==
    [matched |-> FALSE, textRange |-> textRange, result |-> Nil, err |-> err]

\* the nil error
NilError == [fmt |-> NoErr, args |-> <<>>]

\* ParseResult.Result(): nil for a failure
Result(r) == IF r.matched THEN r.result ELSE Nil

\* Error() that counts lines and columns from 1
ErrorOneBased(r) ==
    IF r.matched THEN NilError
    ELSE [fmt |-> "%v at line %d, col %d",
          args |-> <<r.err, r.textRange.end.line + 1, r.textRange.end.col + 1>>]

\* ParseResult.Error(): nil for a success; for a failure
\* fmt.Errorf("%v at line %d, col %d", r.err, end.Line(), end.Col()),
\* kept as the format and its arguments
Error(r) ==
    IF r.matched THEN NilError
    ELSE [fmt |-> "%v at line %d, col %d",
          args |-> <<r.err, r.textRange.end.line, r.textRange.end.col>>]

\* fmt.Errorf(format, a...), kept as the format and its arguments
fail(at, format, a) == Failed(Single(at), [fmt |-> format, args |-> a])

(* --------------------------- the parsers ------------------------------ *)
\* A parser is a record of its type (kind) and construction-time fields.

EOF == [kind |-> "EOFParser"]

Char(c) == [kind |-> "CharRangeParser", min |-> c, max |-> c]

CharRange(min, max) == [kind |-> "CharRangeParser", min |-> min, max |-> max]

Token(token) == [kind |-> "TokenParser", token |-> token]

AnyChar(rs) == [kind |-> "CharSetParser", allowed |-> rs, invert |-> FALSE]

NoneOf(rs) == [kind |-> "CharSetParser", allowed |-> rs, invert |-> TRUE]

Sequence(parsers) == [kind |-> "SeqParser", parsers |-> parsers]

ParseWith(p, fn) == [kind |-> "Wrapper", inner |-> p, fn |-> fn]

Maybe(inner) == [kind |-> "MaybeParser", inner |-> inner]

ListOf(inner) == [kind |-> "ManyParser", inner |-> inner, combine |-> FALSE]

Many(inner) == [kind |-> "ManyParser", inner |-> inner, combine |-> TRUE]

Or(parsers) == [kind |-> "OrParser", parsers |-> parsers]

Named(name, parser) == [Name |-> name, Parser |-> parser]

Map(parsers, fn) == [kind |-> "MapParser", parsers |-> parsers, fn |-> fn]

Lazy(fn) == [kind |-> "LazyFn", fn |-> fn]

Ignore(inner) == [kind |-> "IgnoreParser", inner |-> inner]

(* ------------------- functions given to the parsers ------------------- *)
\* Go closures are named; ApplyFn and ApplyMapFn run them.

\* m[key] of a Go map: the zero value (nil) when the key is absent
MapGet(m, key) == IF key \in DOMAIN m THEN m[key] ELSE Nil

MapPut(m, key, value) ==
    [k \in (DOMAIN m) \cup {key} |-> IF k = key THEN value ELSE m[k]]

EmptyMap == [k \in {} |-> Nil]

\* the func(interface{}) interface{} of a Wrapper
ApplyFn(fn, value) ==
    CASE fn = "listOrEmpty" ->   \* ManySepBy: a list even when nothing matched
           IF value.t = "list" THEN value ELSE List(<<>>)
      [] fn = "asTrue" ->        \* ParseAs(p, true)
           [t |-> "bool", v |-> <<TRUE>>]
      [] OTHER -> value

\* the func(map[string]interface{}) interface{} of a MapParser
ApplyMapFn(fn, m) ==
    CASE fn = "inner" ->         \* Many1SepBy's pairs, Surround
           MapGet(m, "inner")
      [] fn = "firstRest" ->     \* Many1SepBy: first followed by rest
           List(<<MapGet(m, "first")>> \o MapGet(m, "rest").v)
      [] fn = "valueIndex" ->    \* TestMap
           List(<<MapGet(m, "value"), MapGet(m, "index")>>)
      [] fn = "self" ->          \* a combine function that returns its map
           [t |-> "map", v |-> m]
      [] OTHER -> Nil

(* ------------------------- the parse engine --------------------------- *)
\* Parse(p, sc) is p.Parse(sc): the result and the scanner as the call
\* leaves it.

\* A call that panics or never returns hands nothing to its caller, and
\* nothing of the caller runs after it: NoReturn stands for it, with the
\* scanner that carries the panic (or Hangs).
NoReturn(sc) ==
    [res |-> Failed(Single(Sc_GetPos(sc)), [fmt |-> sc.panic, args |-> <<>>]),
     sc |-> sc]

\* the runs of a parser that the reference operators of the claims follow
ManyFuel == 2 * MaxParseLen + 4

RECURSIVE Parse(_, _)
RECURSIVE TokenLoop(_, _, _, _, _)
RECURSIVE SeqLoop(_, _, _, _, _, _)
RECURSIVE CleanupLoop(_, _, _)
RECURSIVE ManyLoop(_, _, _, _)
RECURSIVE OrLoop(_, _, _)
RECURSIVE MapLoop(_, _, _, _, _)

\* EOF that matches whatever it reads
EOFParser_ParseAlways(p, sc) ==
    LET got == Sc_Read(sc)
    IN  [res |-> Success(Single(Sc_GetPos(got.sc)), Str(<<>>)), sc |-> got.sc]

EOFParser_Parse(p, sc) ==
    LET got == Sc_Read(sc)
    IN  IF got.err = NoErr
        THEN [res |-> fail(Sc_GetPos(got.sc), "expected EOF, got %c", <<got.r>>),
              sc |-> got.sc]
        ELSE [res |-> Success(Single(Sc_GetPos(got.sc)), Str(<<>>)),
              sc |-> got.sc]

CharRangeParser_Parse(p, sc) ==
    LET start == Sc_GetPos(sc)
        got == Sc_Read(sc)
    IN  IF got.err # NoErr
        THEN [res |-> fail(Sc_GetPos(got.sc),
                           "expected a character, got error %v", <<got.err>>),
              sc |-> got.sc]
        ELSE IF got.r < p.min \/ got.r > p.max
        THEN [res |-> fail(Sc_GetPos(got.sc),
                   "expected a character in the range '%c' to '%c', got error %c",
                   <<p.min, p.max, got.r>>),
              sc |-> got.sc]
        ELSE [res |-> Success(Range(start, Sc_GetPos(got.sc)), Str(<<got.r>>)),
              sc |-> got.sc]

\* TokenParser.Parse with seen kept in the parser object, not in a local
TokenStepSharedSeen(obj, run) ==
    LET f == Head(run.stack)
        p == IF f.own = Nil THEN obj ELSE f.own
        mine == f.own = Nil /\ f.path = <<>>
        seen == IF ~mine THEN f.seen
                ELSE IF f.i = 1 \/ "seen" \notin DOMAIN obj THEN <<>> ELSE obj.seen
        got == Sc_Read(run.sc)
        seen2 == Append(seen, got.r)
        q == IF f.path = <<>> THEN p ELSE p.parsers[f.path[1]]
        kept == IF mine
                THEN [kind |-> obj.kind, token |-> obj.token, seen |-> seen2]
                ELSE obj
        rest == Tail(run.stack)
    IN  IF f.i > Len(q.token)
        THEN [obj |-> obj,
              run |-> [run EXCEPT !.stack = rest, !.done = (rest = <<>>),
                         !.ret = Success(Range(f.start, Sc_GetPos(run.sc)),
                                         Str(seen))]]
        ELSE IF got.err # NoErr \/ got.r # q.token[f.i]
        THEN [obj |-> kept,
              run |-> [run EXCEPT !.sc = got.sc, !.stack = rest,
                         !.done = (rest = <<>>),
                         !.ret = fail(Sc_GetPos(got.sc), "expected '%s', got '%s'",
                                      <<q.token, seen2>>)]]
        ELSE [obj |-> kept,
              run |-> [run EXCEPT !.sc = got.sc,
                         !.stack = <<[f EXCEPT !.i = f.i + 1, !.seen = seen2]>>
                                   \o rest]]

\* Token that reads one rune more after the rune that does not match
TokenLoopReadsOn(p, i, sc, start, seen) ==
    IF i > Len(p.token)
    THEN [res |-> Success(Range(start, Sc_GetPos(sc)), Str(seen)), sc |-> sc]
    ELSE LET got == Sc_Read(sc)
             seen2 == Append(seen, got.r)
         IN  IF got.err # NoErr
             THEN [res |-> fail(Sc_GetPos(got.sc), "expected '%s', got error %v",
                                <<p.token, got.err>>),
                   sc |-> got.sc]
             ELSE IF got.r # p.token[i]
             THEN [res |-> fail(Sc_GetPos(got.sc), "expected '%s', got '%s'",
                                <<p.token, seen2>>),
                   sc |-> Sc_Read(got.sc).sc]
             ELSE TokenLoop(p, i + 1, got.sc, start, seen2)

\* the body of TokenParser.Parse's loop, from the i-th rune of the token on
TokenLoop(p, i, sc, start, seen) ==
    IF i > Len(p.token)
    THEN [res |-> Success(Range(start, Sc_GetPos(sc)), Str(seen)), sc |-> sc]
    ELSE LET got == Sc_Read(sc)
             seen2 == Append(seen, got.r)
         IN  IF got.err # NoErr
             THEN [res |-> fail(Sc_GetPos(got.sc), "expected '%s', got error %v",
                                <<p.token, got.err>>),
                   sc |-> got.sc]
             ELSE IF got.r # p.token[i]
             THEN [res |-> fail(Sc_GetPos(got.sc), "expected '%s', got '%s'",
                                <<p.token, seen2>>),
                   sc |-> got.sc]
             ELSE TokenLoop(p, i + 1, got.sc, start, seen2)

TokenParser_Parse(p, sc) == TokenLoop(p, 1, sc, Sc_GetPos(sc), <<>>)

\* CharSetParser that does not look at invert
CharSetParser_ParseNoInvert(p, sc) ==
    LET start == Sc_GetPos(sc)
        got == Sc_Read(sc)
    IN  IF got.err # NoErr
        THEN [res |-> fail(Sc_GetPos(got.sc),
                           "expected a character, got error %v", <<got.err>>),
              sc |-> got.sc]
        ELSE IF got.r \notin p.allowed
        THEN [res |-> fail(Sc_GetPos(got.sc),
                           "expected a character in the set, got error %c",
                           <<got.r>>),
              sc |-> got.sc]
        ELSE [res |-> Success(Range(start, Sc_GetPos(got.sc)), Str(<<got.r>>)),
              sc |-> got.sc]

CharSetParser_Parse(p, sc) ==
    LET start == Sc_GetPos(sc)
        got == Sc_Read(sc)
    IN  IF got.err # NoErr
        THEN [res |-> fail(Sc_GetPos(got.sc),
                           "expected a character, got error %v", <<got.err>>),
              sc |-> got.sc]
        ELSE IF (got.r \in p.allowed) = p.invert
        THEN [res |-> fail(Sc_GetPos(got.sc),
                           "expected a character in the set, got error %c",
                           <<got.r>>),
              sc |-> got.sc]
        ELSE [res |-> Success(Range(start, Sc_GetPos(got.sc)), Str(<<got.r>>)),
              sc |-> got.sc]

\* cleanupResult's loop from the i-th result on, buffer being what was written
CleanupLoop(results, i, buffer) ==
    IF i > Len(results) THEN Str(buffer)
    ELSE IF results[i].t = "string" /\ results[i].v = <<>>
    THEN CleanupLoop(results, i + 1, buffer)
    ELSE IF results[i].t = "string"
    THEN CleanupLoop(results, i + 1, buffer \o results[i].v)
    ELSE List(results)

\* cleanupResult that leaves the empty strings out of the list it returns
cleanupResultDropsEmpty(results) ==
    LET merged == CleanupLoop(results, 1, <<>>)
    IN  IF merged.t = "list"
        THEN List(SelectSeq(results, LAMBDA x : x # Str(<<>>)))
        ELSE merged

cleanupResult(results) == CleanupLoop(results, 1, <<>>)

\* Sequence that goes on to the next parser when one fails
SeqLoopSkipFailed(p, i, sc, start, end, results) ==
    IF i > Len(p.parsers)
    THEN [res |-> Success(Range(start, end), cleanupResult(results)), sc |-> sc]
    ELSE LET inner == Parse(p.parsers[i], sc)
         IN  IF ~inner.res.matched
             THEN SeqLoop(p, i + 1, inner.sc, start, end, results)
             ELSE SeqLoop(p, i + 1, inner.sc, start, inner.res.textRange.end,
                          Append(results, inner.res.result))

\* SeqParser.Parse's loop from the i-th parser on
SeqLoop(p, i, sc, start, end, results) ==
    IF i > Len(p.parsers)
    THEN [res |-> Success(Range(start, end), cleanupResult(results)), sc |-> sc]
    ELSE LET inner == Parse(p.parsers[i], sc)
         IN  IF ~inner.res.matched
             THEN inner
             ELSE SeqLoop(p, i + 1, inner.sc, start, inner.res.textRange.end,
                          Append(results, inner.res.result))

SeqParser_Parse(p, sc) == SeqLoop(p, 1, sc, Sc_GetPos(sc), Pos(0, 0), <<>>)

\* ParseWith that runs fn on the value of a failure too
Wrapper_ParseAlways(p, sc) ==
    LET inner == Parse(p.inner, sc)
    IN  [res |-> [inner.res EXCEPT !.result = ApplyFn(p.fn, inner.res.result)],
         sc |-> inner.sc]

Wrapper_Parse(p, sc) ==
    LET inner == Parse(p.inner, sc)
    IN  IF inner.res.matched
        THEN [res |-> Success(inner.res.textRange,
                              ApplyFn(p.fn, inner.res.result)),
              sc |-> inner.sc]
        ELSE inner

\* Maybe that forgets to pop its snapshot when the inner parser matches
MaybeParser_ParseNoPop(p, sc) ==
    LET inner == Parse(p.inner, Sc_StartSnapshot(sc))
    IN  IF inner.res.matched
        THEN [res |-> inner.res, sc |-> inner.sc]
        ELSE LET back == Sc_RewindSnapshot(inner.sc)
             IN  [res |-> Success(Single(Sc_GetPos(back)), Str(<<>>)),
                  sc |-> back]

MaybeParser_Parse(p, sc) ==
    LET inner == Parse(p.inner, Sc_StartSnapshot(sc))
    IN  IF inner.res.matched
        THEN [res |-> inner.res, sc |-> Sc_PopSnapshot(inner.sc)]
        ELSE LET back == Sc_RewindSnapshot(inner.sc)
             IN  [res |-> Success(Single(Sc_GetPos(back)), Str(<<>>)),
                  sc |-> back]

\* ManyParser.Parse's loop: one iteration, then the rest.  seen holds the
\* scanners the earlier iterations started from: an iteration that succeeds
\* and leaves the scanner as one of them, or as it found it, starts a
\* repetition that never ends, for an iteration depends on the scanner
\* alone.
ManyLoop(p, sc, results, seen) ==
    LET inner == Parse(p.inner, Sc_StartSnapshot(sc))
    IN  IF inner.sc.panic # NoPanic
        THEN [results |-> results, sc |-> inner.sc]
        ELSE IF inner.res.matched
        THEN LET kept == Sc_PopSnapshot(inner.sc)
             IN  IF kept.panic # NoPanic
                 THEN [results |-> results, sc |-> kept]
                 ELSE IF kept \in seen \cup {sc}
                 THEN [results |-> results, sc |-> [kept EXCEPT !.panic = Hangs]]
                 ELSE ManyLoop(p, kept, Append(results, inner.res.result),
                               seen \cup {sc})
        ELSE [results |-> results, sc |-> Sc_RewindSnapshot(inner.sc)]

ManyParser_Parse(p, sc) ==
    LET start == Sc_GetPos(sc)
        loop == ManyLoop(p, sc, <<>>, {})
        output == IF p.combine THEN cleanupResult(loop.results)
                  ELSE List(loop.results)
    IN  [res |-> Success(Range(start, Sc_GetPos(loop.sc)), output),
         sc |-> loop.sc]

\* Or that pops, where it is to rewind, the snapshot of a failed candidate
OrLoopNoRewind(p, i, sc) ==
    IF i > Len(p.parsers)
    THEN [res |-> fail(Sc_GetPos(sc), "no parser matched", <<>>), sc |-> sc]
    ELSE LET inner == Parse(p.parsers[i], Sc_StartSnapshot(sc))
         IN  IF inner.res.matched
             THEN [res |-> inner.res, sc |-> Sc_PopSnapshot(inner.sc)]
             ELSE OrLoop(p, i + 1, Sc_PopSnapshot(inner.sc))

\* OrParser.Parse's loop from the i-th parser on
OrLoop(p, i, sc) ==
    IF i > Len(p.parsers)
    THEN [res |-> fail(Sc_GetPos(sc), "no parser matched", <<>>), sc |-> sc]
    ELSE LET inner == Parse(p.parsers[i], Sc_StartSnapshot(sc))
         IN  IF inner.res.matched
             THEN [res |-> inner.res, sc |-> Sc_PopSnapshot(inner.sc)]
             ELSE OrLoop(p, i + 1, Sc_RewindSnapshot(inner.sc))

OrParser_Parse(p, sc) == OrLoop(p, 1, sc)

\* Map that stores the value of every entry, the unnamed ones under ""
MapLoopKeepsUnnamed(p, i, sc, start, parsed) ==
    IF i > Len(p.parsers)
    THEN [res |-> Success(Range(start, Sc_GetPos(sc)), ApplyMapFn(p.fn, parsed)),
          sc |-> sc]
    ELSE LET inner == Parse(p.parsers[i].Parser, sc)
         IN  IF ~inner.res.matched
             THEN inner
             ELSE MapLoop(p, i + 1, inner.sc, start,
                          MapPut(parsed, p.parsers[i].Name, inner.res.result))

\* MapParser.Parse's loop from the i-th named parser on
MapLoop(p, i, sc, start, parsed) ==
    IF i > Len(p.parsers)
    THEN [res |-> Success(Range(start, Sc_GetPos(sc)), ApplyMapFn(p.fn, parsed)),
          sc |-> sc]
    ELSE LET inner == Parse(p.parsers[i].Parser, sc)
         IN  IF ~inner.res.matched
             THEN inner
             ELSE MapLoop(p, i + 1, inner.sc, start,
                          IF p.parsers[i].Name # ""
                          THEN MapPut(parsed, p.parsers[i].Name, inner.res.result)
                          ELSE parsed)

MapParser_Parse(p, sc) == MapLoop(p, 1, sc, Sc_GetPos(sc), EmptyMap)

IgnoreParser_Parse(p, sc) ==
    LET r == Parse(p.inner, sc)
    IN  IF r.res.matched
        THEN [res |-> Success(r.res.textRange, Str(<<>>)), sc |-> r.sc]
        ELSE r

(* ------------------------ helpers and grammars ------------------------ *)

\* CharRange('0', '9')
Digit == CharRange(48, 57)

\* CharRange('a', 'z')
LowerLetter == CharRange(97, 122)

\* CharRange('A', 'Z')
UpperLetter == CharRange(65, 90)

Letter == Or(<<LowerLetter, UpperLetter>>)

AlphaNum == Or(<<LowerLetter, UpperLetter, Digit>>)

Many1(inner) == Sequence(<<inner, Many(inner)>>)

Many1SepBy(inner, separator) ==
    LET pairs == Map(<<Named("", separator), Named("inner", inner)>>, "inner")
    IN  Map(<<Named("first", inner), Named("rest", ListOf(pairs))>>,
            "firstRest")

ManySepBy(inner, separator) ==
    ParseWith(Maybe(Many1SepBy(inner, separator)), "listOrEmpty")

Digits == Many1(Digit)

\* AnyChar(' ', '\n', '\t', '\b', '\v')
WhitespaceChar == AnyChar({32, 10, 9, 8, 11})

Whitespace == Many(WhitespaceChar)

Whitespace1 == Many1(WhitespaceChar)

ParseAs(p, value) == ParseWith(p, value)

\* AnyChar(): no rune is in the empty set, so this parser fails on every input
AlwaysFails == AnyChar({})

\* the README's grammar of a decimal number
Decimal == Sequence(<<Digits, Maybe(Sequence(<<Char(46), Digits>>))>>)

\* the func() Parser of a LazyFn, by name: a self-referential grammar in
\* the way of the example's jsonParser, '.'* digit
LazyFactory(fn) ==
    CASE fn = "dotted" -> Or(<<Sequence(<<Char(46), Lazy("dotted")>>), Digit>>)
      [] OTHER -> EOF

\* Lazy that runs the built parser under a snapshot of its own and rewinds
\* it, match or no match
LazyFn_ParsePeeks(p, sc) ==
    LET actual == LazyFactory(p.fn)
        r == Parse(actual, Sc_StartSnapshot(sc))
    IN  [res |-> r.res, sc |-> Sc_RewindSnapshot(r.sc)]

LazyFn_Parse(p, sc) ==
    LET actual == LazyFactory(p.fn)
    IN  Parse(actual, sc)

\* p.Parse(sc).  A call made by a run that has panicked or hangs never
\* happens, and a call in which a panic is raised or a loop never ends does
\* not return.
Parse(p, sc) ==
    IF sc.panic # NoPanic THEN NoReturn(sc)
    ELSE CHOOSE given \in
           { IF out.sc.panic # NoPanic THEN NoReturn(out.sc) ELSE out :
               out \in
                 { CASE p.kind = "EOFParser" -> EOFParser_Parse(p, sc)
                     [] p.kind = "CharRangeParser" -> CharRangeParser_Parse(p, sc)
                     [] p.kind = "TokenParser" -> TokenParser_Parse(p, sc)
                     [] p.kind = "CharSetParser" -> CharSetParser_Parse(p, sc)
                     [] p.kind = "SeqParser" -> SeqParser_Parse(p, sc)
                     [] p.kind = "Wrapper" -> Wrapper_Parse(p, sc)
                     [] p.kind = "MaybeParser" -> MaybeParser_Parse(p, sc)
                     [] p.kind = "ManyParser" -> ManyParser_Parse(p, sc)
                     [] p.kind = "OrParser" -> OrParser_Parse(p, sc)
                     [] p.kind = "MapParser" -> MapParser_Parse(p, sc)
                     [] p.kind = "LazyFn" -> LazyFn_Parse(p, sc)
                     [] p.kind = "IgnoreParser" -> IgnoreParser_Parse(p, sc) } } :
           TRUE

\* the entry points: what the caller gets, a value and an error; when the
\* Parse call does not return the caller gets neither, only the panic that
\* ends the run (or Hangs)
parseWith(parser, scanner) ==
    LET out == Parse(parser, scanner)
    IN  IF out.sc.panic # NoPanic
        THEN [panic |-> out.sc.panic]
        ELSE [value |-> Result(out.res), err |-> Error(out.res)]

ParseScanner(parser, reader) == parseWith(parser, FromReader(reader))

ParseString(parser, str) == parseWith(parser, FromString(str))

\* Built(p, sc) is the factories p.Parse(sc) calls, in the order of the
\* calls: a LazyFn calls its own on entry, every other parser only through
\* the Parse calls it makes on its inner parsers.  calls are the calls up
\* to the return of the Parse or, when a loop in it never ends, up to the
\* end of the first pass through what the loop repeats; forever are the
\* calls of every further pass; returns says whether the Parse returns.
RECURSIVE Built(_, _)
RECURSIVE BuiltInOrder(_, _, _)
RECURSIVE BuiltByOr(_, _, _)
RECURSIVE BuiltByMany(_, _, _, _)
RECURSIVE Joined(_)

\* the sequences of a sequence, one after the other
Joined(seqs) ==
    IF seqs = <<>> THEN <<>> ELSE Head(seqs) \o Joined(Tail(seqs))

\* the calls of what runs first, then those of what runs after it
After(calls, rest) ==
    [calls |-> calls \o rest.calls, forever |-> rest.forever]

\* by the loops of SeqParser.Parse and MapParser.Parse over parsers ps
BuiltInOrder(ps, i, sc) ==
    IF i > Len(ps) THEN [calls |-> <<>>, forever |-> <<>>]
    ELSE CHOOSE made \in
           { IF inner.sc.panic # NoPanic \/ ~inner.res.matched
             THEN After(<<>>, b)
             ELSE After(b.calls, BuiltInOrder(ps, i + 1, inner.sc)) :
               inner \in {Parse(ps[i], sc)}, b \in {Built(ps[i], sc)} } : TRUE

\* by the loop of OrParser.Parse
BuiltByOr(ps, i, sc) ==
    IF i > Len(ps) THEN [calls |-> <<>>, forever |-> <<>>]
    ELSE CHOOSE made \in
           { IF inner.sc.panic # NoPanic \/ inner.res.matched
             THEN After(<<>>, b)
             ELSE After(b.calls,
                        BuiltByOr(ps, i + 1, Sc_RewindSnapshot(inner.sc))) :
               inner \in {Parse(ps[i], Sc_StartSnapshot(sc))},
               b \in {Built(ps[i], Sc_StartSnapshot(sc))} } : TRUE

\* by the loop of ManyParser.Parse: seen are the scanners the earlier
\* iterations started from, made the calls of each of them
BuiltByMany(p, sc, seen, made) ==
    CHOOSE all \in
      { LET kept == Sc_PopSnapshot(inner.sc)
            seen2 == Append(seen, sc)
            made2 == Append(made, b.calls)
            again == {j \in 1..Len(seen2) : seen2[j] = kept}
        IN  IF inner.sc.panic # NoPanic THEN After(<<>>, b)
            ELSE IF ~inner.res.matched \/ kept.panic # NoPanic
            THEN [calls |-> b.calls, forever |-> <<>>]
            ELSE IF again # {}
            THEN [calls |-> b.calls,
                  forever |-> Joined(SubSeq(made2, CHOOSE j \in again : TRUE,
                                            Len(made2)))]
            ELSE After(b.calls, BuiltByMany(p, kept, seen2, made2)) :
          inner \in {Parse(p.inner, Sc_StartSnapshot(sc))},
          b \in {Built(p.inner, Sc_StartSnapshot(sc))} } : TRUE

Built(p, sc) ==
    LET made ==
          CASE p.kind = "LazyFn" ->
                 After(<<p.fn>>, Built(LazyFactory(p.fn), sc))
            [] p.kind = "SeqParser" -> BuiltInOrder(p.parsers, 1, sc)
            [] p.kind = "MapParser" ->
                 BuiltInOrder([i \in 1..Len(p.parsers) |-> p.parsers[i].Parser],
                              1, sc)
            [] p.kind = "OrParser" -> BuiltByOr(p.parsers, 1, sc)
            [] p.kind = "ManyParser" -> BuiltByMany(p, sc, <<>>, <<>>)
            [] p.kind = "MaybeParser" -> Built(p.inner, Sc_StartSnapshot(sc))
            [] p.kind \in {"Wrapper", "IgnoreParser"} -> Built(p.inner, sc)
            [] OTHER -> [calls |-> <<>>, forever |-> <<>>]
    IN  IF sc.panic # NoPanic
        THEN [calls |-> <<>>, forever |-> <<>>, returns |-> FALSE]
        ELSE CHOOSE all \in
               { [calls |-> m.calls, forever |-> m.forever,
                  returns |-> Parse(p, sc).sc.panic = NoPanic] :
                   m \in {made} } : TRUE

\* the parsers the model runs: one or more of every combinator, alone and
\* nested, after the repository's tests, helpers and examples
Parsers ==
    << EOF,
       Char(46),
       Digit,
       AnyChar({RuneA, NewLine}),
       NoneOf({46}),
       Token(<<49, 46>>),
       Sequence(<<AnyChar({RuneA}), AnyChar({49}), EOF>>),
       Sequence(<<Maybe(Char(RuneA)), Char(49)>>),
       Or(<<Token(<<49, 46>>), Token(<<49, 49>>), Char(RuneA)>>),
       Many(Digit),
       ListOf(Digit),
       Many(Or(<<Token(<<49, 46>>), Char(49)>>)),
       Many1(Digit),
       Decimal,
       AlphaNum,
       Map(<<Named("value", Many(Letter)), Named("", Char(46)),
             Named("index", Many(Digit))>>, "valueIndex"),
       ManySepBy(Digits, Char(46)),
       ParseAs(Token(<<RuneA>>), "asTrue"),
       Ignore(Char(46)),
       Lazy("dotted"),
       Maybe(Many1SepBy(Letter, Whitespace1)),
       Many(Maybe(Char(RuneA))),
       Or(<<Token(<<49, 46>>), Char(49)>>),
       Or(<<Char(46), Token(<<49, 46>>)>>),
       Or(<<Token(<<49, 46>>), AlwaysFails>>),
       Or(<<Maybe(Char(RuneA)), AlwaysFails>>),
       Sequence(<<Maybe(Char(RuneA)), ListOf(Digit)>>),
       Many(ParseAs(Char(RuneA), "asTrue")),
       Map(<<Named("key", Digits), Named("", Char(46)),
             Named("value", Many(Digit))>>, "self"),
       ManySepBy(Letter, Whitespace1),
       Many1(Or(<<Token(<<49, 46>>), Char(49)>>)),
       Sequence(<<Or(<<Token(<<49, 46>>), Char(49)>>), Char(49)>>),
       Or(<<Many(Or(<<Token(<<49, 46>>), Char(49)>>)), AlwaysFails>>),
       Or(<<Sequence(<<Or(<<Token(<<49, 46>>), Char(49)>>), Char(49)>>),
            AlwaysFails>>),
       Or(<<Decimal, AlwaysFails>>) >>

(* ------------------------- the scanner harness ------------------------ *)
\* One text is read through three scanners driven by the same calls:
\*   rbs  RewindableScanner over RuneBacktrackingScanner   (FromString)
\*   sbs  RewindableScanner over ScannerBacktrackingScanner (FromReader)
\*   str  the index-based StringScanner
\* last is what the latest call returned on each of them.
\* parsed is the parser of the latest Parse call and its result on each
\* scanner, and as history the factories of Lazy parsers called so far
\* (built); the parsers themselves are constructed before the run.  hist and
\* emptiedBy are history variables: hist has one entry per frame of
\* rbs.lastSnap (newest first) and emptiedBy names the call that last left
\* the snapshot stack empty.
\* direct is a pair of bare sources over the same text, driven through the
\* BacktrackingScanner interface with no scanner in between: the latest
\* call and what it returned, and as history the number of runes read
\* (consumed), whether a StartBuffer has been made since the latest
\* DropBuffer (on) and the runes read since that StartBuffer (window).

VARIABLES input, rbs, sbs, str, last, parsed, hist, emptiedBy, direct, trail,
          pool

vars == <<input, rbs, sbs, str, last, parsed, hist, emptiedBy, direct, trail,
          pool>>

NoResult == [r |-> 0, err |-> NoErr]

Returned(res) == [r |-> res.r, err |-> res.err]

Running == rbs.panic = NoPanic /\ sbs.panic = NoPanic /\ str.panic = NoPanic

\* drop the last n elements of a sequence
DropLast(seq, n) == SubSeq(seq, 1, Len(seq) - n)

NoParse == [parser |-> Nil, rbs |-> Nil, sbs |-> Nil, str |-> Nil,
            built |-> <<>>]

\* no parser object is shared
NoPool == [built |-> Nil, obj |-> Nil, runs |-> <<>>, mixed |-> FALSE]

\* the three scanners, new, over the text
HarnessInit(texts) ==
    /\ input \in texts
    /\ rbs = FromString(input)
    /\ sbs = FromReader(RuneReader(input))
    /\ str = StringFromString(input)
    /\ last = [op |-> "New", rbs |-> NoResult, sbs |-> NoResult,
               str |-> NoResult]
    /\ parsed = NoParse
    /\ hist = <<>>
    /\ emptiedBy = "New"
    /\ trail = <<>>
    /\ direct = [rbs |-> RBSFromString(input),
                 sbs |-> SBSFromReader(RuneReader(input)),
                 op |-> "New", got |-> [rbs |-> NoResult, sbs |-> NoResult],
                 consumed |-> 0, on |-> FALSE, window |-> <<>>]

InitWith(texts) == HarnessInit(texts) /\ pool = NoPool

Init == InitWith(Inputs)

ReadStep ==
    /\ Running
    /\ LET a == Read(rbs)
           b == Read(sbs)
           c == StringRead(str)
           live == ~(rbs.isReplaying /\ rbs.replayPos < SrcBufSize(rbs.source))
       IN  /\ rbs' = a.sc
           /\ sbs' = b.sc
           /\ str' = c.sc
           /\ last' = [op |-> "Read", rbs |-> Returned(a), sbs |-> Returned(b),
                       str |-> Returned(c)]
           /\ hist' = IF a.err # NoErr THEN hist
                      ELSE [i \in 1..Len(hist) |->
                               [hist[i] EXCEPT
                                  !.seen = Append(hist[i].seen, a.r),
                                  !.liveSince = hist[i].liveSince \/ live]]
           /\ trail' = IF a.err # NoErr THEN trail ELSE Append(trail, a.r)
    /\ UNCHANGED <<input, parsed, emptiedBy, direct, pool>>

StartSnapshotStep ==
    /\ Running
    /\ Len(rbs.lastSnap) < MaxDepth
    /\ rbs' = StartSnapshot(rbs)
    /\ sbs' = StartSnapshot(sbs)
    /\ str' = StringStartSnapshot(str)
    /\ last' = [op |-> "StartSnapshot", rbs |-> NoResult, sbs |-> NoResult,
                str |-> NoResult]
    /\ hist' = <<[seen |-> <<>>, pos |-> GetPos(rbs), innerRewound |-> FALSE,
                  startedReplaying |-> rbs.isReplaying,
                  liveSince |-> FALSE]>> \o hist
    /\ UNCHANGED <<input, parsed, emptiedBy, direct, trail, pool>>

RewindSnapshotStep ==
    /\ Running
    /\ rbs' = RewindSnapshot(rbs)
    /\ sbs' = RewindSnapshot(sbs)
    /\ str' = StringRewindSnapshot(str)
    /\ last' = [op |-> "RewindSnapshot", rbs |-> NoResult, sbs |-> NoResult,
                str |-> NoResult]
    /\ hist' = IF hist = <<>> THEN hist
               ELSE [i \in 1..(Len(hist) - 1) |->
                        [hist[i + 1] EXCEPT
                           !.seen = DropLast(hist[i + 1].seen, Len(hist[1].seen)),
                           !.innerRewound = TRUE]]
    /\ emptiedBy' = IF Len(hist) = 1 THEN "RewindSnapshot" ELSE emptiedBy
    /\ trail' = IF hist = <<>> THEN trail
                ELSE DropLast(trail, Len(hist[1].seen))
    /\ UNCHANGED <<input, parsed, direct, pool>>

PopSnapshotStep ==
    /\ Running
    /\ rbs' = PopSnapshot(rbs)
    /\ sbs' = PopSnapshot(sbs)
    /\ str' = StringPopSnapshot(str)
    /\ last' = [op |-> "PopSnapshot", rbs |-> NoResult, sbs |-> NoResult,
                str |-> NoResult]
    /\ hist' = IF hist = <<>> THEN hist ELSE Tail(hist)
    /\ emptiedBy' = IF Len(hist) = 1 THEN "PopSnapshot" ELSE emptiedBy
    /\ UNCHANGED <<input, parsed, direct, trail, pool>>

Next ==
    \/ ReadStep
    \/ StartSnapshotStep
    \/ RewindSnapshotStep
    \/ PopSnapshotStep

Spec == Init /\ [][Next]_vars

(* -------------------------- the source harness ------------------------ *)
\* A client of the two BacktrackingScanner implementations makes the same
\* call on both: Read, StartBuffer or DropBuffer, in any order.

Scanners == <<input, rbs, sbs, str, last, parsed, hist, emptiedBy, trail, pool>>

SrcReadStep ==
    /\ LET a == SrcRead(direct.rbs)
           b == SrcRead(direct.sbs)
       IN  direct' = [direct EXCEPT
                        !.rbs = a.src,
                        !.sbs = b.src,
                        !.op = "Read",
                        !.got = [rbs |-> Returned(a), sbs |-> Returned(b)],
                        !.consumed = IF a.err = NoErr THEN @ + 1 ELSE @,
                        !.window = IF direct.on /\ a.err = NoErr
                                   THEN Append(@, a.r) ELSE @]
    /\ UNCHANGED Scanners

SrcStartBufferStep ==
    /\ direct' = [direct EXCEPT
                     !.rbs = SrcStartBuffer(direct.rbs),
                     !.sbs = SrcStartBuffer(direct.sbs),
                     !.op = "StartBuffer",
                     !.got = [rbs |-> NoResult, sbs |-> NoResult],
                     !.on = TRUE]
    /\ UNCHANGED Scanners

SrcDropBufferStep ==
    /\ direct' = [direct EXCEPT
                     !.rbs = SrcDropBuffer(direct.rbs),
                     !.sbs = SrcDropBuffer(direct.sbs),
                     !.op = "DropBuffer",
                     !.got = [rbs |-> NoResult, sbs |-> NoResult],
                     !.on = FALSE,
                     !.window = <<>>]
    /\ UNCHANGED Scanners

SourceNext ==
    \/ SrcReadStep
    \/ SrcStartBufferStep
    \/ SrcDropBufferStep

SourceSpec == Init /\ [][SourceNext]_vars

(* -------------------------- the parser harness ------------------------ *)
\* A run of the parser harness: a caller may have snapshots outstanding
\* (StartSnapshotStep), then one parser is run by one Parse call on each of
\* the three scanners (ParseStep), then the caller reads on (ReadStep).

ParseInit == InitWith(ParseInputs)

ParseStep ==
    /\ Running
    /\ parsed = NoParse
    /\ \E i \in 1..Len(Parsers) :
          LET a == Parse(Parsers[i], rbs)
              b == Parse(Parsers[i], sbs)
              c == Parse(Parsers[i], str)
          IN  /\ rbs' = a.sc
              /\ sbs' = b.sc
              /\ str' = c.sc
              /\ parsed' = [parser |-> Parsers[i], rbs |-> a.res,
                            sbs |-> b.res, str |-> c.res,
                            built |-> parsed.built
                                        \o Built(Parsers[i], rbs).calls]
    /\ last' = [op |-> "Parse", rbs |-> NoResult, sbs |-> NoResult,
                str |-> NoResult]
    /\ UNCHANGED <<input, hist, emptiedBy, direct, trail, pool>>

ParseNext ==
    \/ parsed = NoParse /\ StartSnapshotStep
    \/ ParseStep
    \/ parsed # NoParse /\ ReadStep

ParseSpec == ParseInit /\ [][ParseNext]_vars

(* --------------------------- observations ----------------------------- *)

\* the runes the next n Reads return, up to the first Read that fails
RECURSIVE ReadN(_, _)
ReadN(s, n) ==
    IF n = 0 THEN <<>>
    ELSE LET got == Read(s)
         IN  IF got.err # NoErr THEN <<>>
             ELSE <<got.r>> \o ReadN(got.sc, n - 1)

\* GetPos and the result of every subsequent Read (the runes up to the
\* failing Read; a rune is consumed by each, so MaxLen + 1 Reads reach it)
Observe(s) == [pos |-> GetPos(s), reads |-> ReadN(s, MaxLen + 2)]

\* Rewinding the newest frame, whose history entry is h, restores the
\* position captured at its StartSnapshot and the Reads that follow return
\* the runes read since then.
RewindRedelivers(s, h) ==
    LET back == RewindSnapshot(s)
    IN  /\ back.panic = NoPanic
        /\ GetPos(back) = h.pos
        /\ ReadN(back, Len(h.seen)) = h.seen

\* the runes the next n Reads return through the Scanner interface, up to
\* the first Read that fails
RECURSIVE Sc_ReadN(_, _)
Sc_ReadN(s, n) ==
    IF n = 0 THEN <<>>
    ELSE LET got == Sc_Read(s)
         IN  IF got.err # NoErr THEN <<>>
             ELSE <<got.r>> \o Sc_ReadN(got.sc, n - 1)

\* where a scanner stands: GetPos and the input the following Reads deliver
Rest(s) == [pos |-> Sc_GetPos(s), reads |-> Sc_ReadN(s, MaxParseLen + 1)]

\* the position of a scanner that has read the first n runes of a text
RECURSIVE PosAfter(_, _)
PosAfter(text, n) ==
    IF n = 0 THEN StartingPos ELSE Advance(PosAfter(text, n - 1), text[n])

\* the scanner stands in the text where its position says: the Reads that
\* follow deliver the text from that position on, to its end
StandsAt(s, text) ==
    \E n \in 0..Len(text) :
       /\ PosAfter(text, n) = Sc_GetPos(s)
       /\ Sc_ReadN(s, Len(text) + 1) = SubSeq(text, n + 1, Len(text))

\* the three Parse calls of the latest ParseStep: the scanner before (s),
\* the scanner after (t) and the result (res)
Calls ==
    { [s |-> rbs, t |-> rbs', res |-> parsed'.rbs],
      [s |-> sbs, t |-> sbs', res |-> parsed'.sbs],
      [s |-> str, t |-> str', res |-> parsed'.str] }

\* those of the three that ran on a RewindableScanner and returned
ScannerCalls == {c \in Calls : c.s.impl = "RewindableScanner"
                                /\ c.t.panic = NoPanic}

TypeOK ==
    /\ input \in Inputs \cup ParseInputs
    /\ Len(hist) = Len(rbs.lastSnap)
    /\ Len(sbs.lastSnap) = Len(rbs.lastSnap)
    /\ Len(str.lastSnap) = Len(rbs.lastSnap)
    /\ rbs.panic = sbs.panic /\ rbs.panic = str.panic


(* ------------------ claims about the scanner (C1-C5) ------------------ *)

\* C1: whenever a snapshot is outstanding, RewindSnapshot restores GetPos to
\* the position captured by the matching StartSnapshot and the Reads that
\* follow return, rune for rune, everything read since that StartSnapshot.
C1_RewindRedelivers ==
    (Running /\ hist # <<>>) => RewindRedelivers(rbs, Head(hist))

\* C2: RewindableScanner returns the same runes, the same end-of-input
\* errors and the same positions as StringScanner driven by the same calls.
C2_MatchesStringScanner ==
    /\ last.rbs = last.str
    /\ GetPos(rbs) = str.currentPos

\* C3: in every reachable state, StartSnapshot immediately followed by
\* PopSnapshot leaves GetPos and the result of every subsequent Read as they
\* would be without the two calls.
C3_StartPopIdentity ==
    Running => Observe(PopSnapshot(StartSnapshot(rbs))) = Observe(rbs)

\* C4: once an inner snapshot was started and rewound while snapshot A was
\* outstanding, and whatever was read after, rewinding A restores A's
\* position and re-delivers every rune read since A was started.
C4_NestedCompose ==
    (Running /\ hist # <<>> /\ Head(hist).innerRewound)
        => RewindRedelivers(rbs, Head(hist))

\* C5: a snapshot started while the scanner was replaying, after Reads that
\* ran into fresh input, re-delivers on rewind exactly the runes read after
\* its StartSnapshot.
C5_ReplayAnchored ==
    (Running /\ hist # <<>> /\ Head(hist).startedReplaying
             /\ Head(hist).liveSince)
        => RewindRedelivers(rbs, Head(hist))

(* ------------------ claims about the scanner (C7-C10) ----------------- *)

\* a scanner with the panic mark removed: position, replay offset, mode,
\* stack and source
Untouched(s) == [s EXCEPT !.panic = NoPanic]

\* C7: RewindSnapshot or PopSnapshot on an empty stack panics (it returns no
\* result) and leaves position, replay offset, mode and buffer as they were;
\* no other call panics.
C7_EmptyStackPanics ==
    [][ /\ (last'.op \in {"RewindSnapshot", "PopSnapshot"} /\ rbs.lastSnap = <<>>)
            => /\ rbs'.panic = (IF last'.op = "RewindSnapshot"
                                THEN RewindPanic ELSE PopPanic)
               /\ sbs'.panic = rbs'.panic
               /\ Untouched(rbs') = rbs
               /\ Untouched(sbs') = sbs
               /\ last'.rbs = NoResult /\ last'.sbs = NoResult
        /\ rbs'.panic # NoPanic
            => (last'.op \in {"RewindSnapshot", "PopSnapshot"}
                /\ rbs.lastSnap = <<>>)
      ]_vars

C7_Witness ==
    /\ rbs.panic = PopPanic
    /\ rbs.source.recording
    /\ sbs.source.buffer # <<>>
    /\ rbs.isReplaying

\* C8 as claimed: the source is recording iff the snapshot stack is non-empty.
C8_RecordingIffStack ==
    /\ rbs.source.recording <=> rbs.lastSnap # <<>>
    /\ sbs.source.recording <=> sbs.lastSnap # <<>>

\* C8 amended: the source is recording iff the snapshot stack is non-empty
\* or the call that last emptied the stack was a RewindSnapshot.
C8_RecordingUntilPopped ==
    /\ rbs.source.recording
          <=> (rbs.lastSnap # <<>> \/ emptiedBy = "RewindSnapshot")
    /\ sbs.source.recording
          <=> (sbs.lastSnap # <<>> \/ emptiedBy = "RewindSnapshot")

C8_Witness ==
    /\ Running
    /\ rbs.lastSnap = <<>>
    /\ rbs.source.recording /\ sbs.source.recording
    /\ ~rbs.isReplaying
    /\ last.op = "Read"

\* the step turns the source's recording off (only DropBuffer does)
Dropped(s, t) == s.source.recording /\ ~t.source.recording

\* the step keeps the recorded window: what was buffered still is
Kept(s, t) ==
    /\ SrcBufSize(t.source) >= SrcBufSize(s.source)
    /\ \A i \in 0..(SrcBufSize(s.source) - 1) :
          SrcReadBuffer(t.source, i) = SrcReadBuffer(s.source, i)

\* C9 as claimed: a step drops the buffer exactly when it takes the stack
\* from non-empty to empty.
C9_DroppedWhenStackEmpties ==
    [][ /\ (rbs.lastSnap # <<>> /\ rbs'.lastSnap = <<>>) <=> Dropped(rbs, rbs')
        /\ (sbs.lastSnap # <<>> /\ sbs'.lastSnap = <<>>) <=> Dropped(sbs, sbs')
      ]_vars

\* C9 amended: a step drops the buffer exactly when it is a PopSnapshot that
\* takes the stack from non-empty to empty; every other step, a
\* RewindSnapshot that empties the stack included, keeps what is buffered.
C9_DroppedWhenPopEmpties ==
    [][ \A pair \in {<<rbs, rbs'>>, <<sbs, sbs'>>} :
          LET s == pair[1]
              t == pair[2]
              popsLast == /\ last'.op = "PopSnapshot"
                          /\ s.lastSnap # <<>> /\ t.lastSnap = <<>>
          IN  /\ popsLast <=> Dropped(s, t)
              /\ popsLast => SrcBufSize(t.source) = 0
              /\ ~popsLast => Kept(s, t)
      ]_vars

C9_Witness ==
    /\ Running
    /\ last.op = "PopSnapshot"
    /\ rbs.lastSnap = <<>>
    /\ ~rbs.source.recording /\ ~sbs.source.recording
    /\ rbs.source.pos = 2

\* C10: over either source the scanner returns the same runes, fails at the
\* same Reads and reports the same positions.
C10_SourcesAgree ==
    /\ last.rbs.r = last.sbs.r
    /\ (last.rbs.err = NoErr) <=> (last.sbs.err = NoErr)
    /\ GetPos(rbs) = GetPos(sbs)
    /\ rbs.panic = sbs.panic

C10_Witness ==
    /\ last.op = "Read"
    /\ rbs.isReplaying /\ sbs.isReplaying
    /\ last.sbs.r = RuneB /\ last.rbs.r = RuneB
    /\ rbs.replayPos = 2
    /\ rbs.lastSnap # <<>>


(* ---------------------- claims about the sources ---------------------- *)

\* C11: on both sources, the buffer is the window of runes read since the
\* StartBuffer that began the recording: BufSize is the number of those
\* runes (0 right after that StartBuffer and after DropBuffer),
\* ReadBuffer(i) is the i-th of them, and the forward cursor is moved by
\* Read alone, so the next Read returns the rune after the last one read.
C11_BufferIsWindow ==
    \A s \in {direct.rbs, direct.sbs} :
       /\ SrcBufSize(s) = Len(direct.window)
       /\ \A i \in 0..(Len(direct.window) - 1) :
             SrcReadBuffer(s, i) = direct.window[i + 1]
       /\ direct.op = "DropBuffer" => SrcBufSize(s) = 0
       /\ (direct.op = "StartBuffer" /\ direct.window = <<>>)
             => SrcBufSize(s) = 0
       /\ LET got == SrcRead(s)
          IN  IF direct.consumed < Len(input)
              THEN got.err = NoErr /\ got.r = input[direct.consumed + 1]
              ELSE got.err # NoErr

C11_Witness ==
    /\ direct.op = "Read"
    /\ direct.on
    /\ direct.consumed = 2
    /\ direct.window = <<RuneB>>
    /\ direct.got.rbs.r = RuneB /\ direct.got.sbs.r = RuneB

\* C12: on both sources, a StartBuffer made while recording leaves BufSize
\* and every ReadBuffer(i) as they were, and a StartBuffer made while not
\* recording starts an empty window at the cursor: BufSize is 0 and the
\* next rune read is the first of the window.
C12_StartBufferIdempotent ==
    [][ direct'.op = "StartBuffer" =>
          \A pair \in {<<direct.rbs, direct'.rbs>>, <<direct.sbs, direct'.sbs>>} :
             LET s == pair[1]
                 t == pair[2]
                 got == SrcRead(t)
             IN  /\ direct.on =>
                       /\ SrcBufSize(t) = SrcBufSize(s)
                       /\ \A i \in 0..(SrcBufSize(s) - 1) :
                             SrcReadBuffer(t, i) = SrcReadBuffer(s, i)
                 /\ ~direct.on => SrcBufSize(t) = 0
                 /\ got.err = NoErr =>
                       /\ SrcBufSize(got.src) = SrcBufSize(t) + 1
                       /\ SrcReadBuffer(got.src, SrcBufSize(t)) = got.r
                       /\ got.r = input[direct.consumed + 1]
      ]_vars

C12_Witness ==
    /\ direct.op = "StartBuffer"
    /\ direct.window = <<RuneA>>
    /\ direct.consumed = 1
    /\ Len(input) = 2
    /\ SrcBufSize(direct.rbs) = 1 /\ SrcBufSize(direct.sbs) = 1

(* ---------------------- claims about the parsers ---------------------- *)

\* the call did not panic and, if it returned, left the snapshot stack as
\* it found it
Balanced(s, t) ==
    /\ t.panic \notin {RewindPanic, PopPanic}
    /\ t.panic = NoPanic => t.lastSnap = s.lastSnap

\* C6: no Parse call of a parser built from the combinators rewinds or pops
\* an empty snapshot stack, and every Parse call returns with the snapshot
\* stack as it was on entry.
C6_ParseBalanced ==
    [][ last'.op = "Parse"
          => Balanced(rbs, rbs') /\ Balanced(sbs, sbs') /\ Balanced(str, str')
      ]_vars

C6_Witness ==
    /\ last.op = "Parse"
    /\ Running
    /\ parsed.parser = ManySepBy(Digits, Char(46))
    /\ parsed.rbs.matched
    /\ Len(rbs.lastSnap) = 1
    /\ rbs.isReplaying
    /\ rbs.source.pos = 3

(* -------------------- claims about the combinators -------------------- *)

\* the least element of a non-empty set of numbers
Least(S) == CHOOSE i \in S : \A j \in S : i <= j

\* what Or(p1..pn), run from scanner s, is to return and where it is to
\* leave the scanner: each candidate is judged by running it alone from s
OrContract(p, s, t, res) ==
    LET alone == [i \in 1..Len(p.parsers) |-> Parse(p.parsers[i], s)]
        hits == {i \in 1..Len(p.parsers) : alone[i].res.matched}
    IN  IF hits = {}
        THEN /\ res = fail(Sc_GetPos(s), "no parser matched", <<>>)
             /\ Rest(t) = Rest(s)
        ELSE /\ res = alone[Least(hits)].res
             /\ Rest(t) = Rest(alone[Least(hits)].sc)

\* C13: Or returns the result of the first candidate that succeeds from the
\* position where Or started and leaves the scanner where that candidate
\* ended; if none succeeds it returns 'no parser matched' at the start and
\* the scanner is back there, the input read re-delivered to later Reads.
C13_OrFirstSuccess ==
    [][ (last'.op = "Parse" /\ parsed'.parser.kind = "OrParser")
          => \A c \in ScannerCalls : OrContract(parsed'.parser, c.s, c.t, c.res)
      ]_vars

\* the Parse calls of the latest ParseStep that returned, on any scanner
ReturnedCalls == {c \in Calls : c.t.panic = NoPanic}

\* the latest ParseStep ran Or(p, AlwaysFails) for some parser p
OrWithFailing ==
    /\ last'.op = "Parse"
    /\ parsed'.parser.kind = "OrParser"
    /\ Len(parsed'.parser.parsers) = 2
    /\ parsed'.parser.parsers[2] = AlwaysFails

\* C14 to the letter: Or(p, q) with q always failing returns the result of
\* p run alone and ends at the position where p alone ends, for every p and
\* every text, a failure of p included.  Or's own contract (C13) answers a
\* failure of p with 'no parser matched' at the start.
C14_OrWithFailingIsInner ==
    [][ OrWithFailing =>
          \A c \in ReturnedCalls :
             LET alone == Parse(parsed'.parser.parsers[1], c.s)
             IN  /\ c.res = alone.res
                 /\ Sc_GetPos(c.t) = Sc_GetPos(alone.sc)
      ]_vars

\* C14, read with Or's contract: for every parser p and every text, where
\* p alone succeeds, Or(p, q) with q always failing returns p's result and
\* ends at the position where p alone ends; where p alone fails, Or(p, q)
\* returns 'no parser matched' with the range at the position where Or
\* started, and ends at that position.
C14_OrWithFailingIsInnerOnSuccess ==
    [][ OrWithFailing =>
          \A c \in ReturnedCalls :
             LET alone == Parse(parsed'.parser.parsers[1], c.s)
             IN  IF alone.res.matched
                 THEN /\ c.res = alone.res
                      /\ Sc_GetPos(c.t) = Sc_GetPos(alone.sc)
                 ELSE /\ c.res = fail(Sc_GetPos(c.s), "no parser matched", <<>>)
                      /\ Sc_GetPos(c.t) = Sc_GetPos(c.s)
      ]_vars

\* the same on the StringScanner alone, where no snapshot call loses input
C14_OnStringScanner ==
    [][ OrWithFailing =>
          \A c \in {d \in ReturnedCalls : d.s.impl = "StringScanner"} :
             LET alone == Parse(parsed'.parser.parsers[1], c.s)
             IN  IF alone.res.matched
                 THEN /\ c.res = alone.res
                      /\ Sc_GetPos(c.t) = Sc_GetPos(alone.sc)
                 ELSE /\ c.res = fail(Sc_GetPos(c.s), "no parser matched", <<>>)
                      /\ Sc_GetPos(c.t) = Sc_GetPos(c.s)
      ]_vars

\* Or(p, AlwaysFails) from a new scanner where p alone succeeds with less:
\* p alone returns "1" up to 0:1, under Or it returns "11" up to 0:2
C14_Differs ==
    /\ last.op = "Parse"
    /\ Running
    /\ parsed.parser =
          Or(<<Many(Or(<<Token(<<49, 46>>), Char(49)>>)), AlwaysFails>>)
    /\ input = <<49, 49>>
    /\ parsed.rbs.result = Str(<<49, 49>>)
    /\ parsed.rbs.textRange = Range(Pos(0, 0), Pos(0, 2))
    /\ LET alone == Parse(Many(Or(<<Token(<<49, 46>>), Char(49)>>)),
                          FromString(input))
       IN  /\ alone.res.matched
           /\ alone.res.result = Str(<<49>>)
           /\ alone.res.textRange = Range(Pos(0, 0), Pos(0, 1))
           /\ Sc_GetPos(alone.sc) = Pos(0, 1)

C14_Witness ==
    /\ last.op = "Parse"
    /\ Running
    /\ parsed.parser = Or(<<Token(<<49, 46>>), AlwaysFails>>)
    /\ input = <<49, 46, 49>>
    /\ parsed.rbs.matched /\ parsed.sbs.matched /\ parsed.str.matched
    /\ parsed.rbs.result = Str(<<49, 46>>)
    /\ GetPos(rbs) = Pos(0, 2)

\* the consecutive successes of parser p run again and again from scanner
\* s: their values, and the scanner after the last of them
RECURSIVE Successes(_, _, _)
Successes(p, s, fuel) ==
    LET a == Parse(p, s)
    IN  IF ~a.res.matched \/ fuel = 0 \/ a.sc.panic # NoPanic
        THEN [results |-> <<>>, sc |-> s]
        ELSE LET more == Successes(p, a.sc, fuel - 1)
             IN  [results |-> <<a.res.result>> \o more.results, sc |-> more.sc]

\* C15: Many(p) and ListOf(p) return the values of the consecutive
\* successes of p (so p is run once more than it succeeds) and leave the
\* scanner immediately after the last success: at its position, with the
\* Reads that follow delivering the text from there on, the input read by
\* the failing last attempt included.
C15_ManyStopsAfterLastSuccess ==
    [][ (last'.op = "Parse" /\ parsed'.parser.kind = "ManyParser")
          => \A c \in ScannerCalls :
                LET ref == Successes(parsed'.parser.inner, c.s, ManyFuel)
                IN  /\ c.res.matched
                    /\ c.res.result = IF parsed'.parser.combine
                                       THEN cleanupResult(ref.results)
                                       ELSE List(ref.results)
                    /\ Sc_GetPos(c.t) = Sc_GetPos(ref.sc)
                    /\ StandsAt(c.t, input)
      ]_vars

\* C16: Maybe(p) always succeeds; where p alone succeeds it returns p's
\* result and leaves the scanner after p's input; where p alone fails it
\* returns "" with the range at the position where Maybe started and the
\* scanner is back there, the Reads that follow delivering all p had read.
C16_MaybeNeverFails ==
    [][ (last'.op = "Parse" /\ parsed'.parser.kind = "MaybeParser")
          => \A c \in ScannerCalls :
                LET alone == Parse(parsed'.parser.inner, c.s)
                IN  /\ c.res.matched
                    /\ alone.res.matched =>
                          /\ c.res = alone.res
                          /\ Sc_GetPos(c.t) = Sc_GetPos(alone.sc)
                    /\ ~alone.res.matched =>
                          /\ c.res = Success(Single(Sc_GetPos(c.s)), Str(<<>>))
                          /\ Sc_GetPos(c.t) = Sc_GetPos(c.s)
                    /\ StandsAt(c.t, input)
      ]_vars

\* parsers ps run one after the other, each on the scanner the one before
\* left, up to and including the first that fails: what each returned and
\* the scanner it left
RECURSIVE Runs(_, _, _)
Runs(ps, i, s) ==
    IF i > Len(ps) THEN <<>>
    ELSE LET a == Parse(ps[i], s)
         IN  IF a.res.matched THEN <<a>> \o Runs(ps, i + 1, a.sc) ELSE <<a>>

\* C17: Sequence(p1..pn) runs its parsers in order on one scanner; at the
\* first pi that fails it returns pi's failure as it is and leaves the
\* scanner as pi left it (nothing rewound, nothing further run); if all
\* succeed the range goes from the position where the Sequence started to
\* the end of pn's range.
C17_SequenceShortCircuits ==
    [][ (last'.op = "Parse" /\ parsed'.parser.kind = "SeqParser")
          => \A c \in ReturnedCalls :
                LET runs == Runs(parsed'.parser.parsers, 1, c.s)
                    final == runs[Len(runs)]
                IN  /\ c.t = final.sc
                    /\ ~final.res.matched => c.res = final.res
                    /\ final.res.matched =>
                          /\ Len(runs) = Len(parsed'.parser.parsers)
                          /\ c.res.matched
                          /\ c.res.textRange =
                                Range(Sc_GetPos(c.s), final.res.textRange.end)
      ]_vars

C17_Witness ==
    /\ last.op = "Parse"
    /\ Running
    /\ parsed.parser = Sequence(<<AnyChar({RuneA}), AnyChar({49}), EOF>>)
    /\ input = <<RuneA, RuneA, 49>>
    /\ ~parsed.rbs.matched
    /\ parsed.rbs.textRange = Single(Pos(0, 2))
    /\ GetPos(rbs) = Pos(0, 2)
    /\ rbs.lastSnap = <<>>

\* the values of a sequence of runs
Values(runs) == [i \in 1..Len(runs) |-> runs[i].res.result]

\* the strings of a sequence of string values, one after the other
RECURSIVE Concat(_)
Concat(subs) ==
    IF subs = <<>> THEN <<>> ELSE Head(subs).v \o Concat(Tail(subs))

\* the merge rule: one string if every sub-result is a string, else the
\* list of all sub-results
Merged(subs) ==
    IF \A i \in 1..Len(subs) : subs[i].t = "string"
    THEN Str(Concat(subs))
    ELSE List(subs)

\* C18: a successful Sequence returns the merge of its parsers' values and
\* Many(p) the merge of the values ListOf(p) returns as a list, which are
\* the values of p's consecutive successes in order; with no success Many
\* returns "" and ListOf the empty list, zero-length at the start position.
C18_ValuesMerge ==
    [][ last'.op = "Parse" =>
          \A c \in ReturnedCalls :
             LET p == parsed'.parser
             IN  /\ (p.kind = "SeqParser" /\ c.res.matched) =>
                       c.res.result = Merged(Values(Runs(p.parsers, 1, c.s)))
                 /\ p.kind = "ManyParser" =>
                       LET subs == Parse(ListOf(p.inner), c.s).res.result
                       IN  /\ subs = List(Successes(p.inner, c.s, ManyFuel).results)
                           /\ c.res.matched
                           /\ c.res.result = IF p.combine THEN Merged(subs.v)
                                                          ELSE subs
                           /\ subs.v = <<>> =>
                                 c.res = Success(Single(Sc_GetPos(c.s)),
                                                 IF p.combine THEN Str(<<>>)
                                                 ELSE List(<<>>))
      ]_vars

C18_Witness ==
    /\ last.op = "Parse"
    /\ Running
    /\ parsed.parser = Sequence(<<Maybe(Char(RuneA)), ListOf(Digit)>>)
    /\ input = <<49, 49>>
    /\ parsed.rbs.matched
    /\ parsed.rbs.result = List(<<Str(<<>>), List(<<Str(<<49>>), Str(<<49>>)>>)>>)
    /\ parsed.str.result = parsed.rbs.result

\* the names of the entries of a Map that have one
EntryNames(entries) ==
    {entries[i].Name : i \in 1..Len(entries)} \ {""}

\* the name-to-value pairs of the named entries, given what each entry's
\* parser returned; of two entries of one name the later one counts
NamedValues(entries, runs) ==
    [k \in EntryNames(entries) |->
        LET i == CHOOSE i \in 1..Len(entries) :
                    /\ entries[i].Name = k
                    /\ \A j \in 1..Len(entries) : entries[j].Name = k => j <= i
        IN  runs[i].res.result]

\* C19: Map runs its entries' parsers in order as a Sequence does; if one
\* fails Map returns that failure and no combined value; if all succeed it
\* returns what the combine function makes of exactly the name-to-value
\* pairs of the named entries, with a range from the start to where the
\* last entry, named or not, left the scanner.
C19_MapNamedOnly ==
    [][ (last'.op = "Parse" /\ parsed'.parser.kind = "MapParser")
          => \A c \in ReturnedCalls :
                LET entries == parsed'.parser.parsers
                    runs == Runs([i \in 1..Len(entries) |-> entries[i].Parser],
                                 1, c.s)
                    final == runs[Len(runs)]
                IN  /\ c.t = final.sc
                    /\ ~final.res.matched => c.res = final.res
                    /\ final.res.matched =>
                          c.res = Success(
                                    Range(Sc_GetPos(c.s), Sc_GetPos(final.sc)),
                                    ApplyMapFn(parsed'.parser.fn,
                                               NamedValues(entries, runs)))
      ]_vars

C19_Witness ==
    /\ last.op = "Parse"
    /\ Running
    /\ parsed.parser.kind = "MapParser"
    /\ parsed.parser.fn = "self"
    /\ input = <<49, 46, 49>>
    /\ parsed.rbs.matched
    /\ DOMAIN parsed.rbs.result.v = {"key", "value"}
    /\ parsed.rbs.result.v["key"] = Str(<<49>>)
    /\ parsed.rbs.result.v["value"] = Str(<<49>>)
    /\ parsed.rbs.textRange = Range(Pos(0, 0), Pos(0, 3))

\* C20: ParseWith(p, fn) and Ignore(p) leave the scanner exactly as p alone
\* leaves it; where p fails they return p's failure as it is, fn not
\* applied; where p succeeds they return p's range with the value fn(value),
\* for Ignore the value "".
C20_WrappersChangeValueOnly ==
    [][ (last'.op = "Parse"
         /\ parsed'.parser.kind \in {"Wrapper", "IgnoreParser"})
          => \A c \in ReturnedCalls :
                LET p == parsed'.parser
                    alone == Parse(p.inner, c.s)
                IN  /\ c.t = alone.sc
                    /\ ~alone.res.matched => c.res = alone.res
                    /\ alone.res.matched =>
                          c.res = Success(alone.res.textRange,
                                          IF p.kind = "IgnoreParser"
                                          THEN Str(<<>>)
                                          ELSE ApplyFn(p.fn, alone.res.result))
      ]_vars

C20_Witness ==
    /\ last.op = "Parse"
    /\ Running
    /\ parsed.parser = ParseAs(Token(<<RuneA>>), "asTrue")
    /\ input = <<RuneA, 49>>
    /\ parsed.rbs.matched
    /\ parsed.rbs.result = [t |-> "bool", v |-> <<TRUE>>]
    /\ parsed.rbs.textRange = Range(Pos(0, 0), Pos(0, 1))
    /\ rbs.lastSnap = <<>> /\ ~rbs.source.recording

(* ---------------- claims about the parsers (C21-C30) ------------------ *)

\* C21: constructing the parsers calls no factory; a Parse of Lazy(factory)
\* calls the factory first of all, and returns the result and leaves the
\* scanner as the parser the factory builds does when run from the same
\* scanner.
C21_LazyBuildsOnParse ==
    [][ /\ parsed.parser = Nil => parsed.built = <<>>
        /\ (last'.op = "Parse" /\ parsed'.parser.kind = "LazyFn") =>
              /\ parsed.built = <<>>
              /\ parsed'.built # <<>>
              /\ Head(parsed'.built) = parsed'.parser.fn
              /\ \A c \in ReturnedCalls :
                    LET actual == Parse(LazyFactory(parsed'.parser.fn), c.s)
                    IN  c.res = actual.res /\ c.t = actual.sc
      ]_vars

C21_Witness ==
    /\ last.op = "Parse"
    /\ Running
    /\ parsed.parser = Lazy("dotted")
    /\ input = <<46, 46, 49>>
    /\ parsed.built = <<"dotted", "dotted", "dotted">>
    /\ parsed.rbs.matched
    /\ parsed.rbs.result = Str(<<46, 46, 49>>)

\* the number of leading runes on which two strings agree
RECURSIVE CommonPrefix(_, _)
CommonPrefix(a, b) ==
    IF a = <<>> \/ b = <<>> \/ Head(a) # Head(b) THEN 0
    ELSE 1 + CommonPrefix(Tail(a), Tail(b))

\* the scanner has consumed exactly the first n runes of the text: it is at
\* the position after them and the Reads that follow deliver the others
Consumed(s, text, n) ==
    /\ Sc_GetPos(s) = PosAfter(text, n)
    /\ Sc_ReadN(s, Len(text) + 1) = SubSeq(text, n + 1, Len(text))

\* C22: Token(t), run at the start of a text, succeeds iff the text starts
\* with t, returning t with exactly len(t) runes consumed; otherwise it
\* fails with the runes up to and including the first mismatching one
\* consumed, or, when the text ends first, with all of the text consumed.
C22_TokenStopsAtMismatch ==
    [][ (last'.op = "Parse" /\ parsed'.parser.kind = "TokenParser")
          => \A c \in ReturnedCalls :
                LET tk == parsed'.parser.token
                    k == CommonPrefix(tk, input)
                IN  /\ c.res.matched <=> k = Len(tk)
                    /\ k = Len(tk) =>
                          /\ c.res = Success(Range(StartingPos,
                                                    PosAfter(input, k)), Str(tk))
                          /\ Consumed(c.t, input, k)
                    /\ (k < Len(tk) /\ k < Len(input)) =>
                          Consumed(c.t, input, k + 1)
                    /\ (k < Len(tk) /\ k = Len(input)) =>
                          Consumed(c.t, input, k)
                    /\ c.t.lastSnap = c.s.lastSnap
      ]_vars

C22_Witness ==
    /\ last.op = "Parse"
    /\ Running
    /\ parsed.parser = Token(<<49, 46>>)
    /\ input = <<49, 49, RuneA>>
    /\ ~parsed.rbs.matched /\ ~parsed.sbs.matched /\ ~parsed.str.matched
    /\ GetPos(rbs) = Pos(0, 2)
    /\ Sc_ReadN(rbs, 2) = <<RuneA>>

\* the runes a single-rune parser takes
Accepts(p, r) ==
    IF p.kind = "CharRangeParser"
    THEN p.min <= r /\ r <= p.max
    ELSE (r \in p.allowed) # p.invert

\* C23: a range or set parser run at the start of a text reads exactly one
\* rune; it succeeds iff there is one and it is in the range or set (for
\* the negated form: not in the set), returning it as a one-rune string
\* with the range from before to after it; on the empty text it fails and
\* consumes nothing.
C23_SingleRuneParsers ==
    [][ (last'.op = "Parse"
         /\ parsed'.parser.kind \in {"CharRangeParser", "CharSetParser"})
          => \A c \in ReturnedCalls :
                IF input = <<>>
                THEN ~c.res.matched /\ Consumed(c.t, input, 0)
                ELSE /\ c.res.matched <=> Accepts(parsed'.parser, input[1])
                     /\ c.res.matched =>
                           c.res = Success(Range(StartingPos, PosAfter(input, 1)),
                                           Str(<<input[1]>>))
                     /\ Consumed(c.t, input, 1)
      ]_vars

C23_Witness ==
    /\ last.op = "Parse"
    /\ Running
    /\ parsed.parser = NoneOf({46})
    /\ input = <<NewLine, 46>>
    /\ parsed.rbs.matched
    /\ parsed.rbs.result = Str(<<NewLine>>)
    /\ parsed.rbs.textRange = Range(Pos(0, 0), Pos(1, 0))
    /\ Sc_ReadN(rbs, 2) = <<46>>

\* what EOF() is to do when run from scanner s: succeed iff no rune
\* remains, then with "" at the position of s and nothing consumed
EOFContract(s, t, res) ==
    /\ res.matched <=> Sc_Read(s).err # NoErr
    /\ res.matched =>
          /\ res = Success(Single(Sc_GetPos(s)), Str(<<>>))
          /\ Rest(t) = Rest(s)
          /\ t.lastSnap = s.lastSnap

\* C24: EOF(), run at the start of a text and run as the last parser of a
\* Sequence after the parsers before it have matched, succeeds only when
\* no rune remains, with a zero-length "" at the current position and
\* nothing consumed, and fails when a rune remains.
C24_EOFOnlyAtEnd ==
    [][ last'.op = "Parse" =>
          \A c \in ReturnedCalls :
             LET p == parsed'.parser
             IN  /\ p.kind = "EOFParser" => EOFContract(c.s, c.t, c.res)
                 /\ (p.kind = "SeqParser" /\ p.parsers[Len(p.parsers)] = EOF) =>
                       LET runs == Runs(p.parsers, 1, c.s)
                           n == Len(p.parsers)
                       IN  Len(runs) = n =>
                             /\ EOFContract(runs[n - 1].sc, runs[n].sc,
                                            runs[n].res)
                             /\ c.res.matched <=> runs[n].res.matched
                             /\ c.t = runs[n].sc
      ]_vars

C24_Witness ==
    /\ last.op = "Parse"
    /\ Running
    /\ parsed.parser = Sequence(<<AnyChar({RuneA}), AnyChar({49}), EOF>>)
    /\ input = <<RuneA, 49>>
    /\ parsed.rbs.matched /\ parsed.sbs.matched /\ parsed.str.matched
    /\ parsed.rbs.result = Str(<<RuneA, 49>>)
    /\ parsed.rbs.textRange = Range(Pos(0, 0), Pos(0, 2))
    /\ GetPos(rbs) = Pos(0, 2)

\* the latest ParseStep ran a single-rune parser that read a rune and
\* rejected it
RejectedRune ==
    /\ last'.op = "Parse"
    /\ parsed'.parser.kind \in {"CharRangeParser", "CharSetParser"}
    /\ input # <<>>
    /\ ~Accepts(parsed'.parser, input[1])

\* C25: when a single-rune parser rejects the rune it read, the error the
\* caller gets names that rune and the line and column at which the rune
\* stands in the text.
C25_ErrorAtOffendingRune ==
    [][ RejectedRune =>
          \A c \in ReturnedCalls :
             LET err == parseWith(parsed'.parser, c.s).err
                 message == err.args[1]
             IN  /\ err # NilError
                 /\ message.args[Len(message.args)] = input[1]
                 /\ err.args[2] = Sc_GetPos(c.s).line
                 /\ err.args[3] = Sc_GetPos(c.s).col
      ]_vars

\* C26: the caller of a parse gets a nil error iff the top-level result is
\* a match; for a failure it gets one error, '<message> at line L, col C',
\* with the failing result's message and L, C the line and column of the
\* end of its range, counted from 0 (on the empty text always 0 and 0).
C26_OneErrorAtRangeEnd ==
    [][ last'.op = "Parse" =>
          \A c \in ReturnedCalls :
             LET out == parseWith(parsed'.parser, c.s)
             IN  /\ out.err = NilError <=> c.res.matched
                 /\ c.res.matched => out.value = c.res.result
                 /\ ~c.res.matched =>
                       /\ out.value = Nil
                       /\ out.err.fmt = "%v at line %d, col %d"
                       /\ out.err.args = <<c.res.err, c.res.textRange.end.line,
                                           c.res.textRange.end.col>>
                       /\ c.res.err # NilError
                       /\ input = <<>> =>
                             out.err.args[2] = 0 /\ out.err.args[3] = 0
      ]_vars

C26_Witness ==
    /\ last.op = "Parse"
    /\ Running
    /\ parsed.parser = Decimal
    /\ input = <<49, NewLine>>
    /\ parsed.rbs.matched
    /\ ParseString(Decimal, <<NewLine, 49>>).err =
          [fmt |-> "%v at line %d, col %d",
           args |-> <<[fmt |-> "expected a character in the range '%c' to '%c', got error %c",
                       args |-> <<48, 57, NewLine>>], 1, 0>>]
    /\ ParseString(Decimal, input) = [value |-> Str(<<49>>), err |-> NilError]

\* the number of digits the text has from index i on, up to the first rune
\* that is not a digit
RECURSIVE DigitRun(_, _)
DigitRun(text, i) ==
    IF i > Len(text) \/ text[i] < 48 \/ text[i] > 57 THEN 0
    ELSE 1 + DigitRun(text, i + 1)

\* the length of the longest prefix of the form digits or digits '.' digits
DecimalPrefix(text) ==
    LET n == DigitRun(text, 1)
        m == DigitRun(text, n + 2)
    IN  IF n > 0 /\ n < Len(text) /\ text[n + 1] = 46 /\ m > 0
        THEN n + 1 + m ELSE n

\* C27: the decimal grammar, on a text that starts with a digit, returns as
\* one string the longest prefix of the form digits or digits '.' digits
\* and leaves the scanner immediately after that prefix, a '.' without a
\* digit after it and every rune after the match still to be read; on the
\* empty text it fails with nothing consumed.
C27_DecimalLongestPrefix ==
    [][ (last'.op = "Parse" /\ parsed'.parser = Decimal)
          => \A c \in ReturnedCalls :
                LET k == DecimalPrefix(input)
                IN  /\ k > 0 =>
                          /\ c.res.matched
                          /\ c.res.result = Str(SubSeq(input, 1, k))
                          /\ Consumed(c.t, input, k)
                    /\ input = <<>> =>
                          /\ ~c.res.matched
                          /\ Consumed(c.t, input, 0)
      ]_vars

\* after one p: the values of the following sep p pairs, as long as both
\* match, and the scanner after the last p
RECURSIVE SepRun(_, _, _, _)
SepRun(p, sep, s, fuel) ==
    LET b == Parse(sep, s)
        c == Parse(p, b.sc)
    IN  IF fuel = 0 \/ ~b.res.matched \/ ~c.res.matched
        THEN [results |-> <<>>, sc |-> s]
        ELSE LET more == SepRun(p, sep, c.sc, fuel - 1)
             IN  [results |-> <<c.res.result>> \o more.results, sc |-> more.sc]

\* the longest run p sep p sep ... p from scanner s: its values and the
\* scanner after its last p
LongestSepRun(p, sep, s) ==
    LET a == Parse(p, s)
    IN  IF ~a.res.matched THEN [results |-> <<>>, sc |-> s]
        ELSE LET more == SepRun(p, sep, a.sc, ManyFuel)
             IN  [results |-> <<a.res.result>> \o more.results, sc |-> more.sc]

\* the (p, sep) of the ManySepBy parsers that are run
SepByCases == {<<Digits, Char(46)>>, <<Letter, Whitespace1>>}

\* C28: ManySepBy(p, sep) never fails and returns a list: the values of the
\* longest run p sep p ... p of the text, in order (the empty list, nothing
\* consumed, when p does not match at the start), and the scanner is left
\* immediately after that run, a separator without a p after it still to
\* be read. The run is the one the parsers find on a StringScanner.
C28_ManySepByLongestRun ==
    [][ last'.op = "Parse" =>
          \A pr \in SepByCases :
             parsed'.parser = ManySepBy(pr[1], pr[2]) =>
                \A c \in ReturnedCalls :
                   LET ref == LongestSepRun(pr[1], pr[2], StringFromString(input))
                   IN  /\ c.res.matched
                       /\ c.res.result = List(ref.results)
                       /\ Consumed(c.t, input, ref.sc.idx)
      ]_vars

\* p is Many1(q) for some parser q
IsMany1(p) ==
    /\ p.kind = "SeqParser"
    /\ Len(p.parsers) = 2
    /\ p.parsers[2] = Many(p.parsers[1])

\* C29: Many1(p) fails, with p's failure and the scanner as p left it, iff
\* the first p fails; otherwise it returns the merged values of as many
\* consecutive p as the text has and leaves the scanner before the first
\* input that p rejects. The consecutive matches are those p finds on a
\* StringScanner.
C29_Many1LongestRun ==
    [][ (last'.op = "Parse" /\ IsMany1(parsed'.parser))
          => \A c \in ReturnedCalls :
                LET p == parsed'.parser.parsers[1]
                    first == Parse(p, c.s)
                    ref == Successes(p, StringFromString(input), ManyFuel)
                IN  /\ c.res = Parse(Sequence(<<p, Many(p)>>), c.s).res
                    /\ c.res.matched <=> first.res.matched
                    /\ ~first.res.matched => (c.res = first.res /\ c.t = first.sc)
                    /\ first.res.matched =>
                          /\ c.res.result = cleanupResult(ref.results)
                          /\ Consumed(c.t, input, ref.sc.idx)
      ]_vars

\* C30: ParseString(parser, text) succeeds whenever the parser matches a
\* prefix of the text (as it does on a StringScanner over the same text),
\* whatever follows the prefix, and fails when the parser does not match.
\* Parses that do not return are left out.
C30_PrefixMatchSucceeds ==
    [][ last'.op = "Parse" =>
          LET ref == Parse(parsed'.parser, StringFromString(input))
              run == Parse(parsed'.parser, FromString(input))
              out == ParseString(parsed'.parser, input)
          IN  (ref.sc.panic = NoPanic /\ run.sc.panic = NoPanic) =>
                 /\ ref.res.matched => out.err = NilError
                 /\ ~ref.res.matched => out.err # NilError
      ]_vars


(* ------------ claims about sharing and termination (C31-C32) ---------- *)

\* C32: every Parse call returns: a match, a mismatch or a panic, never a
\* loop that goes on for ever.
C32_ParseReturns ==
    [][ last'.op = "Parse" => \A c \in Calls : c.t.panic # Hangs ]_vars


(* ------------- claims about positions and the scanner (C33-C38) ------- *)

\* the positions a scanner holds: the current one and those of its snapshots
HeldPositions(s) ==
    {s.currentPos} \cup
    {IF s.impl = "StringScanner" THEN s.lastSnap[i].currentPos
                                 ELSE s.lastSnap[i].position :
        i \in 1..Len(s.lastSnap)}

\* C33: a Read that returns a rune moves the position by Advance: to
\* (line+1, 0) for a newline, to (line, col+1) for any other rune; the
\* positions saved before it (the receivers of earlier calls) are not
\* changed by it; and no position held has a negative line or column.
C33_AdvancePure ==
    /\ [][ last'.op = "Read" =>
            \A c \in { [s |-> rbs, t |-> rbs', got |-> last'.rbs],
                        [s |-> sbs, t |-> sbs', got |-> last'.sbs],
                        [s |-> str, t |-> str', got |-> last'.str] } :
               /\ c.got.err = NoErr =>
                     Sc_GetPos(c.t) =
                        IF c.got.r = NewLine
                        THEN Pos(Sc_GetPos(c.s).line + 1, 0)
                        ELSE Pos(Sc_GetPos(c.s).line, Sc_GetPos(c.s).col + 1)
               /\ c.t.lastSnap = c.s.lastSnap
          ]_vars
    /\ [](\A s \in {rbs, sbs, str} :
            \A pos \in HeldPositions(s) : pos.line >= 0 /\ pos.col >= 0)

C33_Witness ==
    /\ last.op = "Read"
    /\ last.rbs = [r |-> NewLine, err |-> NoErr]
    /\ input = <<RuneA, NewLine>>
    /\ GetPos(rbs) = Pos(1, 0) /\ GetPos(sbs) = Pos(1, 0)
    /\ StringGetPos(str) = Pos(1, 0)
    /\ rbs.lastSnap # <<>>
    /\ Head(rbs.lastSnap).position = Pos(0, 1)

\* the Reads of the latest ReadStep on the two RewindableScanners: the
\* scanner before (s), after (t) and what Read returned (got)
ScannerReads ==
    { [s |-> rbs, t |-> rbs', got |-> last'.rbs],
      [s |-> sbs, t |-> sbs', got |-> last'.sbs] }

\* the number of runes the source has pulled from its input
Pulled(src) == IF src.kind = "RBS" THEN src.pos ELSE src.wrapped.off

\* C34: a Read made while replaying with the replay offset below BufSize
\* returns the buffered rune at the offset, advances the offset and leaves
\* the source as it is; the mode changes to Live only in a Read, one that
\* finds the replay offset at the end of the buffered region, and that Read
\* pulls from the source the rune of the input that follows the runes
\* pulled so far; a live Read made with a snapshot outstanding is in the
\* buffer afterwards, as its last rune.
C34_ReadModes ==
    /\ [][ last'.op = "Read" =>
            \A c \in ScannerReads :
               LET n == SrcBufSize(c.s.source)
                   replay == c.s.isReplaying /\ c.s.replayPos < n
               IN  /\ replay =>
                         /\ c.got = [r |-> SrcReadBuffer(c.s.source, c.s.replayPos),
                                     err |-> NoErr]
                         /\ c.t.replayPos = c.s.replayPos + 1
                         /\ c.t.source = c.s.source
                         /\ c.t.isReplaying
                   /\ ~replay =>
                         /\ ~c.t.isReplaying
                         /\ c.s.isReplaying => c.s.replayPos = n
                         /\ c.got.err = NoErr <=> Pulled(c.s.source) < Len(input)
                         /\ c.got.err = NoErr =>
                               /\ c.got.r = input[Pulled(c.s.source) + 1]
                               /\ Pulled(c.t.source) = Pulled(c.s.source) + 1
                               /\ c.s.lastSnap # <<>> =>
                                     /\ SrcBufSize(c.t.source) = n + 1
                                     /\ SrcReadBuffer(c.t.source, n) = c.got.r
          ]_vars
    /\ [][ last'.op # "Read" =>
            /\ rbs.isReplaying => rbs'.isReplaying
            /\ sbs.isReplaying => sbs'.isReplaying ]_vars

\* C35: a Read that fails (only at the end of the input, with the source's
\* end-of-input error) leaves GetPos, the snapshot stack and the source with
\* its recorded buffer unchanged; and once a Read would fail, it still
\* would after every call other than RewindSnapshot.
C35_FailedReadChangesNothing ==
    /\ [][ last'.op = "Read" =>
            /\ \A c \in ScannerReads :
                  c.got.err # NoErr =>
                     /\ c.got.err \in {EOFError, IoEOF}
                     /\ Pulled(c.s.source) = Len(input)
                     /\ GetPos(c.t) = GetPos(c.s)
                     /\ c.t.lastSnap = c.s.lastSnap
                     /\ c.t.source = c.s.source
            /\ last'.str.err # NoErr =>
                  (StringGetPos(str') = StringGetPos(str)
                   /\ str'.lastSnap = str.lastSnap)
          ]_vars
    /\ [][ last'.op # "RewindSnapshot" =>
            /\ Read(rbs).err # NoErr => Read(rbs').err # NoErr
            /\ Read(sbs).err # NoErr => Read(sbs').err # NoErr
            /\ StringRead(str).err # NoErr => StringRead(str').err # NoErr
          ]_vars

C35_Witness ==
    /\ last.op = "Read"
    /\ last.rbs.err = EOFError /\ last.sbs.err = IoEOF
    /\ input = <<RuneA, NewLine>>
    /\ Len(rbs.lastSnap) = 1
    /\ SrcBufSize(rbs.source) = 2 /\ SrcBufSize(sbs.source) = 2
    /\ GetPos(rbs) = Pos(1, 0) /\ GetPos(sbs) = Pos(1, 0)
    /\ Read(rbs).err = EOFError

\* C36: no Read reads past the recorded window: a Read served from the
\* buffer (the only caller of ReadBuffer, with the replay offset as index)
\* has 0 <= index < BufSize, inside the slice of the source, and no run
\* ends in an index panic.
C36_ReadBufferInWindow ==
    /\ [][ last'.op = "Read" =>
            \A c \in ScannerReads :
               c.t.isReplaying =>
                  /\ 0 <= c.s.replayPos
                  /\ c.s.replayPos < SrcBufSize(c.s.source)
                  /\ SrcIndexInRange(c.s.source, c.s.replayPos)
          ]_vars
    /\ [](rbs.panic # IndexPanic /\ sbs.panic # IndexPanic)

C36_Witness ==
    /\ last.op = "Read"
    /\ last.rbs = [r |-> RuneB, err |-> NoErr]
    /\ last.sbs = [r |-> RuneB, err |-> NoErr]
    /\ input = <<RuneA, RuneB>>
    /\ rbs.isReplaying /\ sbs.isReplaying
    /\ rbs.replayPos = 2 /\ SrcBufSize(rbs.source) = 2
    /\ sbs.replayPos = 2 /\ SrcBufSize(sbs.source) = 2

\* C37: GetPos is StartingPos advanced, in order, over the runes returned
\* by the successful Reads that no RewindSnapshot has undone (trail); a
\* failed Read, a StartSnapshot and a PopSnapshot leave GetPos as it is.
C37_PositionFollowsReads ==
    /\ [](/\ GetPos(rbs) = PosAfter(trail, Len(trail))
          /\ GetPos(sbs) = PosAfter(trail, Len(trail)))
    /\ [][ (\/ last'.op \in {"StartSnapshot", "PopSnapshot"}
            \/ last'.op = "Read" /\ last'.rbs.err # NoErr /\ last'.sbs.err # NoErr)
           => (GetPos(rbs') = GetPos(rbs) /\ GetPos(sbs') = GetPos(sbs))
          ]_vars
    /\ [][ last'.op = "Read" => last'.sbs.r = last'.rbs.r ]_vars

C37_Witness ==
    /\ last.op = "RewindSnapshot"
    /\ Running
    /\ input = <<RuneA, NewLine>>
    /\ Pulled(rbs.source) = 2 /\ Pulled(sbs.source) = 2
    /\ trail = <<RuneA>>
    /\ Len(rbs.lastSnap) = 1
    /\ GetPos(rbs) = Pos(0, 1) /\ GetPos(sbs) = Pos(0, 1)

\* the offsets of a RewindableScanner are consistent with its buffer
OffsetsInBuffer(s) ==
    LET n == SrcBufSize(s.source)
    IN  /\ \A i \in 1..Len(s.lastSnap) :
              0 <= s.lastSnap[i].buffOffset /\ s.lastSnap[i].buffOffset <= n
        /\ \A i, j \in 1..Len(s.lastSnap) :
              i < j => s.lastSnap[j].buffOffset <= s.lastSnap[i].buffOffset
        /\ s.isReplaying => s.replayPos <= n

\* C38: in every reachable state each frame of the snapshot stack has
\* 0 <= buffOffset <= BufSize, the offsets do not decrease from the oldest
\* frame to the newest, and while replaying the replay offset is at most
\* BufSize.
C38_OffsetsInBuffer == OffsetsInBuffer(rbs) /\ OffsetsInBuffer(sbs)


(* ------------- parses that share one parser object (C31) -------------- *)
\* MaxParses parses use the same Parser object, each on a Scanner of its
\* own over a text of its own.  A parse is a stack of Parse calls, one frame
\* per call with the locals of the method; a step runs the call on top of
\* one parse up to its next call on an inner parser, its next loop
\* iteration or its return.  The steps of the parses interleave freely.
\* pool.obj is the shared object as it is now, pool.built as it was built.

\* the inner parser i of parser p
Child(p, i) ==
    IF p.kind \in {"SeqParser", "OrParser"} THEN p.parsers[i]
    ELSE IF p.kind = "MapParser" THEN p.parsers[i].Parser
    ELSE p.inner

\* the parser reached from p through the inner parsers named by path
RECURSIVE Node(_, _)
Node(p, path) ==
    IF path = <<>> THEN p ELSE Node(Child(p, Head(path)), Tail(path))

\* the receiver of a frame: a part of the shared object, or of a parser
\* that a LazyFn built for this call (own)
Receiver(obj, f) == Node(IF f.own = Nil THEN obj ELSE f.own, f.path)

\* the frame of a Parse call that starts on scanner sc
NewFrame(own, path, sc) ==
    [own |-> own, path |-> path, waiting |-> FALSE, i |-> 1,
     start |-> Sc_GetPos(sc), end |-> Pos(0, 0), results |-> <<>>,
     seen |-> <<>>, parsed |-> EmptyMap]

\* a parse of the shared object over a text, before its first step
NewRun(text) ==
    [text |-> text, sc |-> FromString(text),
     stack |-> <<NewFrame(Nil, <<>>, FromString(text))>>,
     ret |-> Nil, done |-> FALSE]

\* the call on top returns res
Return(run, sc, res) ==
    [run EXCEPT !.sc = sc, !.stack = Tail(run.stack), !.ret = res,
                !.done = (Tail(run.stack) = <<>>)]

\* the call on top goes on with locals f
Continue(run, sc, f) ==
    [run EXCEPT !.sc = sc, !.stack = <<f>> \o Tail(run.stack)]

\* the call on top, with locals f, calls Parse on its inner parser i
CallInner(run, sc, f, i) ==
    [run EXCEPT !.sc = sc,
                !.stack = <<NewFrame(f.own, Append(f.path, i), sc),
                            [f EXCEPT !.waiting = TRUE]>> \o Tail(run.stack)]

\* TokenParser.Parse: one iteration of its loop, or its return
TokenStep(obj, run) ==
    LET f == Head(run.stack)
        p == Receiver(obj, f)
        got == Sc_Read(run.sc)
        seen2 == Append(f.seen, got.r)
    IN  [obj |-> obj,
         run |->
           IF f.i > Len(p.token)
           THEN Return(run, run.sc,
                       Success(Range(f.start, Sc_GetPos(run.sc)), Str(f.seen)))
           ELSE IF got.err # NoErr
           THEN Return(run, got.sc,
                       fail(Sc_GetPos(got.sc), "expected '%s', got error %v",
                            <<p.token, got.err>>))
           ELSE IF got.r # p.token[f.i]
           THEN Return(run, got.sc,
                       fail(Sc_GetPos(got.sc), "expected '%s', got '%s'",
                            <<p.token, seen2>>))
           ELSE Continue(run, got.sc, [f EXCEPT !.i = f.i + 1, !.seen = seen2])]

\* one step of the call on top of a parse; no Parse method assigns to its
\* receiver, so the object is returned as it was given.  A parse that has
\* panicked takes no further step.
StepRun(obj, run) ==
    LET f == Head(run.stack)
        p == Receiver(obj, f)
        sc == run.sc
        ret == run.ret
        next ==
          CASE p.kind \in {"EOFParser", "CharRangeParser", "CharSetParser"} ->
                 LET a == Parse(p, sc) IN Return(run, a.sc, a.res)
            [] p.kind = "SeqParser" ->
                 IF ~f.waiting
                 THEN IF f.i > Len(p.parsers)
                      THEN Return(run, sc, Success(Range(f.start, f.end),
                                                   cleanupResult(f.results)))
                      ELSE CallInner(run, sc, f, f.i)
                 ELSE IF ~ret.matched THEN Return(run, sc, ret)
                 ELSE Continue(run, sc,
                         [f EXCEPT !.waiting = FALSE, !.i = f.i + 1,
                                   !.end = ret.textRange.end,
                                   !.results = Append(f.results, ret.result)])
            [] p.kind = "MapParser" ->
                 IF ~f.waiting
                 THEN IF f.i > Len(p.parsers)
                      THEN Return(run, sc, Success(Range(f.start, Sc_GetPos(sc)),
                                                   ApplyMapFn(p.fn, f.parsed)))
                      ELSE CallInner(run, sc, f, f.i)
                 ELSE IF ~ret.matched THEN Return(run, sc, ret)
                 ELSE Continue(run, sc,
                         [f EXCEPT !.waiting = FALSE, !.i = f.i + 1,
                                   !.parsed = IF p.parsers[f.i].Name # ""
                                              THEN MapPut(f.parsed,
                                                          p.parsers[f.i].Name,
                                                          ret.result)
                                              ELSE f.parsed])
            [] p.kind = "Wrapper" ->
                 IF ~f.waiting THEN CallInner(run, sc, f, 1)
                 ELSE IF ret.matched
                 THEN Return(run, sc, Success(ret.textRange,
                                              ApplyFn(p.fn, ret.result)))
                 ELSE Return(run, sc, ret)
            [] p.kind = "IgnoreParser" ->
                 IF ~f.waiting THEN CallInner(run, sc, f, 1)
                 ELSE IF ret.matched
                 THEN Return(run, sc, Success(ret.textRange, Str(<<>>)))
                 ELSE Return(run, sc, ret)
            [] p.kind = "MaybeParser" ->
                 IF ~f.waiting THEN CallInner(run, Sc_StartSnapshot(sc), f, 1)
                 ELSE IF ret.matched THEN Return(run, Sc_PopSnapshot(sc), ret)
                 ELSE LET back == Sc_RewindSnapshot(sc)
                      IN  Return(run, back,
                                 Success(Single(Sc_GetPos(back)), Str(<<>>)))
            [] p.kind = "ManyParser" ->
                 IF ~f.waiting THEN CallInner(run, Sc_StartSnapshot(sc), f, 1)
                 ELSE IF ret.matched
                 THEN Continue(run, Sc_PopSnapshot(sc),
                         [f EXCEPT !.waiting = FALSE,
                                   !.results = Append(f.results, ret.result)])
                 ELSE LET back == Sc_RewindSnapshot(sc)
                      IN  Return(run, back,
                                 Success(Range(f.start, Sc_GetPos(back)),
                                         IF p.combine
                                         THEN cleanupResult(f.results)
                                         ELSE List(f.results)))
            [] p.kind = "OrParser" ->
                 IF ~f.waiting
                 THEN IF f.i > Len(p.parsers)
                      THEN Return(run, sc, fail(Sc_GetPos(sc),
                                                "no parser matched", <<>>))
                      ELSE CallInner(run, Sc_StartSnapshot(sc), f, f.i)
                 ELSE IF ret.matched THEN Return(run, Sc_PopSnapshot(sc), ret)
                 ELSE Continue(run, Sc_RewindSnapshot(sc),
                               [f EXCEPT !.waiting = FALSE, !.i = f.i + 1])
            [] p.kind = "LazyFn" ->
                 IF ~f.waiting
                 THEN [run EXCEPT
                         !.stack = <<NewFrame(LazyFactory(p.fn), <<>>, sc),
                                     [f EXCEPT !.waiting = TRUE]>>
                                   \o Tail(run.stack)]
                 ELSE Return(run, sc, ret)
    IN  IF sc.panic # NoPanic THEN [obj |-> obj, run |-> run]
        ELSE IF p.kind = "TokenParser" THEN TokenStep(obj, run)
        ELSE [obj |-> obj, run |-> next]

\* the parser objects that are shared
SharedParsers ==
    { Token(<<49, 46>>),
      Decimal,
      Lazy("dotted"),
      Or(<<Token(<<49, 46>>), Char(49)>>),
      ManySepBy(Digits, Char(46)),
      Map(<<Named("key", Digits), Named("", Char(46)),
            Named("value", Many(Digit))>>, "self"),
      Sequence(<<AnyChar({RuneA}), Ignore(NoneOf({46})), EOF>>) }

\* the texts of the parses
SharedTexts == {<<49, 46, 49>>, <<46, 49>>, <<RuneA, 49>>}

SharedInit ==
    /\ HarnessInit({<<>>})
    /\ pool \in { [built |-> p, obj |-> p,
                    runs |-> [id \in 1..MaxParses |-> NewRun(texts[id])],
                    mixed |-> FALSE] :
                      p \in SharedParsers,
                      texts \in [1..MaxParses -> SharedTexts] }

\* a parse is between its first step and its return
Underway(run) == ~run.done /\ run # NewRun(run.text)

\* one step of one of the parses
SharedParseStep ==
    /\ \E id \in 1..MaxParses :
          /\ ~pool.runs[id].done
          /\ pool.runs[id].sc.panic = NoPanic
          /\ LET out == StepRun(pool.obj, pool.runs[id])
             IN  pool' = [pool EXCEPT
                            !.obj = out.obj,
                            !.runs[id] = out.run,
                            !.mixed = pool.mixed \/
                               \E other \in 1..MaxParses \ {id} :
                                  Underway(pool.runs[other])]
    /\ UNCHANGED <<input, rbs, sbs, str, last, parsed, hist, emptiedBy, direct,
                   trail>>

SharedNext == SharedParseStep

SharedSpec == SharedInit /\ [][SharedNext]_vars

\* C31: the parses that share a Parser object leave it as it was built,
\* and each of them, however its steps interleave with those of the
\* others, returns the result and leaves its scanner as the same parser
\* does when it runs alone on that text.
C31_SharedParserIsStateless ==
    /\ pool.obj = pool.built
    /\ \A id \in DOMAIN pool.runs :
          pool.runs[id].done =>
             LET alone == Parse(pool.built, FromString(pool.runs[id].text))
             IN  /\ pool.runs[id].ret = alone.res
                 /\ pool.runs[id].sc = alone.sc

C31_Witness ==
    /\ pool.built = Lazy("dotted")
    /\ pool.mixed
    /\ \A id \in DOMAIN pool.runs : pool.runs[id].done
    /\ pool.runs[1].text = <<46, 49>>
    /\ pool.runs[1].ret.matched
    /\ pool.runs[1].ret.result = Str(<<46, 49>>)
    /\ pool.runs[2].text = <<RuneA, 49>>
    /\ ~pool.runs[2].ret.matched

=============================================================================
